---------------------------- MODULE Spec2Model ----------------------------
(***************************************************************************)
(* Model of the pipeline replication engine of cc-utils                    *)
(* (concourse/replicator.py, concourse/enumerator.py): enumerated          *)
(* definition descriptors are preprocessed, rendered and deployed by the   *)
(* worker tasks of PipelineReplicator, and the batch of DeployResults is   *)
(* reconciled against the CI server by ReplicationResultProcessor.         *)
(***************************************************************************)
EXTENDS Integers, Sequences, FiniteSets, TLC

(***************************************************************************)
(* Bounds of the model.                                                    *)
(***************************************************************************)
\* number of descriptors the enumerators yield in one run
MaxDescriptors == 2
\* number of external calls (CI server, factory, template engine, mail)
\* that raise in one run
MaxFaults == 1
\* number of repositories of the organisation the organisation enumerator
\* scans
MaxRepos == 2
\* number of entries of a branch configuration
MaxEntries == 2
\* number of override layers of a descriptor handed to the renderer
MaxLayers == 2

\* number of renderer tasks that call the template retriever at a time
MaxCallers == 2

\* number of tasks submitted to the replicator's pool of workers
MaxTasks == 9

(***************************************************************************)
(* Strings: Python compares str by code point, character by character.     *)
(***************************************************************************)
\* the characters that occur in names, in ascending code point order
Chars == " -:<>AILMVY_abcdefghijklmnopqrstuvwxyz"

CharRank(c) == CHOOSE i \in 1..Len(Chars) : SubSeq(Chars, i, i) = c

RECURSIVE StrLess(_, _)
StrLess(a, b) ==
    IF Len(b) = 0 THEN FALSE
    ELSE IF Len(a) = 0 THEN TRUE
    ELSE LET ca == CharRank(SubSeq(a, 1, 1))
             cb == CharRank(SubSeq(b, 1, 1))
         IN  IF ca # cb THEN ca < cb
             ELSE StrLess(SubSeq(a, 2, Len(a)), SubSeq(b, 2, Len(b)))

\* list.sort(): insertion of every element into an ascending list
RECURSIVE InsertSorted(_, _)
InsertSorted(x, s) ==
    IF s = <<>> THEN <<x>>
    ELSE IF StrLess(x, Head(s)) THEN <<x>> \o s
    ELSE <<Head(s)>> \o InsertSorted(x, Tail(s))

RECURSIVE SortNames(_)
SortNames(s) ==
    IF s = <<>> THEN <<>>
    ELSE InsertSorted(Head(s), SortNames(Tail(s)))

Range(s) == {s[i] : i \in 1..Len(s)}

RECURSIVE Without(_, _)
\* the list s with every element of the set gone kept out, order preserved
Without(s, gone) ==
    IF s = <<>> THEN <<>>
    ELSE IF Head(s) \in gone THEN Without(Tail(s), gone)
    ELSE <<Head(s)>> \o Without(Tail(s), gone)

(***************************************************************************)
(* Mappings (dict): functions from keys to tagged values, a value being a  *)
(* scalar Scalar(s) or a nested mapping Map(m).                            *)
(***************************************************************************)
None == "None"

EmptyMap == [k \in {} |-> None]

Scalar(s) == [t |-> "scalar", v |-> s]

Map(m) == [t |-> "map", v |-> m]

IsMap(x) == x.t = "map"

\* dict.get(key, default)
Get(m, key, default) == IF key \in DOMAIN m THEN m[key] ELSE default

\* truth value of a dict entry: a mapping is true iff it is not empty
Truthy(x) == IF IsMap(x) THEN DOMAIN x.v # {} ELSE x.v # None

RECURSIVE merge_dicts(_, _)
\* deep merge: a key of `other` overwrites the key of `base`, unless both
\* values are mappings, which are merged key by key
merge_dicts(base, other) ==
    [k \in (DOMAIN base) \cup (DOMAIN other) |->
        IF k \notin DOMAIN other THEN base[k]
        ELSE IF k \in DOMAIN base /\ IsMap(base[k]) /\ IsMap(other[k])
             THEN Map(merge_dicts(base[k].v, other[k].v))
             ELSE other[k]]

RECURSIVE MergeAll_BaseWins(_, _)
\* the arguments of merge_dicts are swapped: the earlier layer wins
MergeAll_BaseWins(definition, overrides) ==
    IF overrides = <<>> THEN definition
    ELSE MergeAll_BaseWins(merge_dicts(Head(overrides), definition), Tail(overrides))

RECURSIVE MergeAll(_, _)
\* Renderer._render: for override in override_definitions: merge_dicts(...)
MergeAll(definition, overrides) ==
    IF overrides = <<>> THEN definition
    ELSE MergeAll(merge_dicts(definition, Head(overrides)), Tail(overrides))

(***************************************************************************)
(* Status values.                                                          *)
(***************************************************************************)
SUCCEEDED == 1
FAILED == 2
SKIPPED == 4
CREATED == 8

RenderSUCCEEDED == "RenderStatus.SUCCEEDED"
RenderFAILED == "RenderStatus.FAILED"

RECURSIVE BitAnd(_, _)
BitAnd(a, b) ==
    IF a = 0 \/ b = 0 THEN 0
    ELSE (a % 2) * (b % 2) + 2 * BitAnd(a \div 2, b \div 2)

RECURSIVE BitOr(_, _)
BitOr(a, b) ==
    IF a = 0 THEN b
    ELSE IF b = 0 THEN a
    ELSE (IF a % 2 = 1 \/ b % 2 = 1 THEN 1 ELSE 0) + 2 * BitOr(a \div 2, b \div 2)

\* SetPipelineResult of the CI server client
SetCREATED == "SetPipelineResult.CREATED"
SetUPDATED == "SetPipelineResult.UPDATED"

(***************************************************************************)
(* Descriptors.                                                            *)
(***************************************************************************)
\* DefinitionDescriptor(...); `pipeline` is the attribute the renderer adds
DefinitionDescriptor(name, definition, main_repo, cfg, team, overrides, exc) ==
    [pipeline_name |-> name,
     pipeline_definition |-> definition,
     main_repo |-> main_repo,
     concourse_target_cfg |-> cfg,
     concourse_target_team |-> team,
     override_definitions |-> overrides,
     exception |-> exc,
     pipeline |-> None]

template_name(d) ==
    Get(d.pipeline_definition, "template", Scalar("default")).v

concourse_target(d) == <<d.concourse_target_cfg, d.concourse_target_team>>

concourse_target_key(d) ==
    d.concourse_target_cfg \o ":" \o d.concourse_target_team

\* one descriptor yielded by _wrap_into_descriptors for the entry `name`
WrapIntoDescriptor(repo_path, repo_hostname, branch, name, definition, override_definitions, cfg, team) ==
    DefinitionDescriptor(
        name, definition,
        [path |-> repo_path, branch |-> branch, hostname |-> repo_hostname],
        cfg, team,
        <<Get(override_definitions, name, Map(EmptyMap)).v>>,
        None)

\* the error descriptor yielded when the definitions file does not parse
InvalidYamlDescriptor(repo_path, repo_hostname, branch, cfg, team, exc) ==
    DefinitionDescriptor(
        "<invalid YAML>", EmptyMap,
        [path |-> repo_path, branch |-> branch, hostname |-> repo_hostname],
        cfg, team, <<>>, exc)

\* the name is replaced by the branch
add_branch_to_pipeline_name_BranchOnly(d) ==
    [d EXCEPT !.pipeline_name = d.main_repo.branch]

\* DefinitionDescriptorPreprocessor
add_branch_to_pipeline_name(d) ==
    [d EXCEPT !.pipeline_name = d.pipeline_name \o "-" \o d.main_repo.branch]

\* the injected layer is put in front of the list
inject_main_repo_Prepended(d) ==
    [d EXCEPT !.override_definitions =
        <<("base_definition" :> Map("repo" :> Map(
            [k \in DOMAIN d.main_repo |-> Scalar(d.main_repo[k])])))>> \o d.override_definitions]

inject_main_repo(d) ==
    [d EXCEPT !.override_definitions =
        Append(d.override_definitions,
               ("base_definition" :> Map("repo" :> Map(
                   [k \in DOMAIN d.main_repo |-> Scalar(d.main_repo[k])]))))]

process_definition_descriptor(d) ==
    inject_main_repo(add_branch_to_pipeline_name(d))

(***************************************************************************)
(* Branch configuration (branch.cfg): BranchCfg and BranchCfgEntry.        *)
(* An entry is [name, raw], raw being the mapping of the entry with the    *)
(* keys branches (a list of regular expressions), index and inherit.       *)
(* An optional value (None or a value) is <<>> or <<value>>.               *)
(***************************************************************************)
\* re.fullmatch(pattern, string) for patterns made of literal characters
\* and the wildcard ".*"
RECURSIVE fullmatch(_, _)
fullmatch(pattern, string) ==
    IF Len(pattern) = 0 THEN Len(string) = 0
    ELSE IF Len(pattern) >= 2 /\ SubSeq(pattern, 1, 2) = ".*"
    THEN \E k \in 0..Len(string) :
            fullmatch(SubSeq(pattern, 3, Len(pattern)), SubSeq(string, k + 1, Len(string)))
    ELSE /\ Len(string) > 0
         /\ SubSeq(pattern, 1, 1) = SubSeq(string, 1, 1)
         /\ fullmatch(SubSeq(pattern, 2, Len(pattern)), SubSeq(string, 2, Len(string)))

BranchCfgEntry(name, raw) == [name |-> name, raw |-> raw]

\* BranchCfgEntry.branches()
branches(entry) == entry.raw["branches"].v

\* BranchCfgEntry.branch_matches(branch)
branch_matches(entry, branch) ==
    \E k \in 1..Len(branches(entry)) : fullmatch(branches(entry)[k], branch)

\* BranchCfgEntry.override_definitions()
override_definitions(entry) == Get(entry.raw, "inherit", Map(EmptyMap)).v

\* `if entry.index()`: the truth value of raw.get('index'); None and 0 are
\* false
HasIndex(entry) == "index" \in DOMAIN entry.raw /\ entry.raw["index"].v # 0

\* entry_with_idx(idx, entry), idx being the position among the matches
entry_with_idx(idx, entry) ==
    <<IF HasIndex(entry) THEN entry.raw["index"].v ELSE idx, entry>>

\* sorted(..., key=lambda i: i[0]) is stable: a pair goes behind the pairs
\* with the same key
RECURSIVE InsertByIdx(_, _)
InsertByIdx(pair, sorted) ==
    IF sorted = <<>> THEN <<pair>>
    ELSE IF pair[1] < Head(sorted)[1] THEN <<pair>> \o sorted
    ELSE <<Head(sorted)>> \o InsertByIdx(pair, Tail(sorted))

RECURSIVE SortedByIdx(_)
SortedByIdx(pairs) ==
    IF pairs = <<>> THEN <<>>
    ELSE InsertByIdx(pairs[Len(pairs)], SortedByIdx(SubSeq(pairs, 1, Len(pairs) - 1)))

\* matching_entries
MatchingEntries(cfgs, branch) ==
    SelectSeq(cfgs, LAMBDA entry : branch_matches(entry, branch))

\* the matching entries in the order in which they are merged
MergeOrder(cfgs, branch) ==
    LET matching_entries == MatchingEntries(cfgs, branch)
        indexed_entries == [k \in 1..Len(matching_entries) |-> entry_with_idx(k - 1, matching_entries[k])]
        sorted == SortedByIdx(indexed_entries)
    IN  [k \in 1..Len(sorted) |-> sorted[k][2]]

RECURSIVE MergeEntries(_, _)
\* for _, entry in sorted(...): merge_dicts(effective_branch_cfg, entry.raw)
MergeEntries(effective_branch_cfg, entries) ==
    IF entries = <<>> THEN effective_branch_cfg
    ELSE MergeEntries(merge_dicts(effective_branch_cfg, Head(entries).raw), Tail(entries))

\* the branch resolves to an entry whenever the collection has entries
NoMatch_NoEntries(cfgs, branch) == cfgs = <<>>

\* `if not matching_entries`
NoMatch(cfgs, branch) == MatchingEntries(cfgs, branch) = <<>>

\* BranchCfg.cfg_entry_for_branch(branch): <<>> for None
cfg_entry_for_branch(cfgs, branch) ==
    IF NoMatch(cfgs, branch) THEN <<>>
    ELSE <<BranchCfgEntry("merged", MergeEntries(EmptyMap, MergeOrder(cfgs, branch)))>>

(***************************************************************************)
(* The inputs of a run: definition files found by the enumerators, the     *)
(* templates on disk and the pipelines the CI server already has.          *)
(***************************************************************************)
ConcourseCfgName == "cc"

Teams == {"a", "b"}

Targets == {<<ConcourseCfgName, team>> : team \in Teams}

RepoPath == "org/repo"

RepoHost == "github.com"

BranchName == "m"

OneVariant(v) == Map(v :> Map(EmptyMap))

\* scanned definition files: [team, definitions, inherit]
DefinitionFiles ==
    { [team |-> "a",
       definitions |-> ("p" :> Map("jobs" :> OneVariant("v1")))
                    @@ ("q" :> Map(("jobs" :> Map(EmptyMap))
                                @@ ("variants" :> OneVariant("v1")))),
       inherit |-> EmptyMap],
      [team |-> "b",
       definitions |-> ("p" :> Map("jobs" :> OneVariant("v1"))),
       inherit |-> ("p" :> Map("variants" :> OneVariant("v2")))],
      [team |-> "a",
       definitions |-> ("t" :> Map(("template" :> Scalar("absent"))
                                @@ ("jobs" :> OneVariant("v1"))
                                @@ ("variants" :> OneVariant("v2")))),
       inherit |-> EmptyMap] }

\* the descriptors _scan_repository_for_definitions yields for a parsed file
ScanDefinitions(f) ==
    LET definitions == merge_dicts(f.definitions, f.inherit)
    IN  { WrapIntoDescriptor(RepoPath, RepoHost, BranchName, name, definitions[name].v, f.inherit, ConcourseCfgName, f.team) : name \in DOMAIN definitions }

\* every descriptor an enumerator can yield in the modelled runs
DescriptorPool ==
    UNION {ScanDefinitions(f) : f \in DefinitionFiles}
    \cup {InvalidYamlDescriptor(RepoPath, RepoHost, BranchName, ConcourseCfgName, "a", "YAMLError")}

\* template files present under the template path
TemplatesPresent == {"default"}

\* the pipelines the targets of the CI server may hold before the run
InitialPipelines ==
    { (<<ConcourseCfgName, "a">> :> <<"zed", "q-m", "old">>) @@ (<<ConcourseCfgName, "b">> :> <<"p-m">>) }

\* settings of the ConcourseDeployer (the defaults of replicate_pipelines)
DeployerSettings ==
    { [unpause_pipelines |-> TRUE, expose_pipelines |-> TRUE] }

\* concourse_api.pipeline_resources(pipeline_name)
PipelineResources(pipeline_name) ==
    IF pipeline_name = "q-m"
    THEN << [name |-> "img", has_webhook_token |-> FALSE] >>
    ELSE << [name |-> "src", has_webhook_token |-> TRUE],
            [name |-> "img", has_webhook_token |-> FALSE],
            [name |-> "pr", has_webhook_token |-> TRUE] >>

(***************************************************************************)
(* State.                                                                  *)
(***************************************************************************)
VARIABLES
    descs,          \* the descriptor objects, in the order they were enumerated
    enum_done,      \* the enumerators are exhausted
    task,           \* per descriptor: "submitted", "done" or "raised"
    render_results, \* per descriptor: the RenderResult, once render was called
    deploy_results, \* per descriptor: the DeployResult, once the task is done
    render_calls,   \* per descriptor: number of calls of Renderer.render
    deploy_calls,   \* per descriptor: number of calls of deploy
    server_calls,   \* per descriptor: CI server calls made by deploy
    set_responses,  \* per descriptor: what set_pipeline reported to deploy
    deploy_raised,  \* per descriptor: the step of deploy that raised, if any
    deployer,       \* the ConcourseDeployer's settings
    pipelines,      \* per target: the CI server's ordered pipeline list
    faults,         \* number of external calls that raised so far
    rp_pc,          \* position of replicate / process_results
    results,        \* the list handed to process_results (descriptor indices)
    rp_bucket,      \* index of the target bucket being swept
    rp_log,         \* CI server calls made by process_results, in order
    rp_failed,      \* failed_descriptors
    rp_next,        \* index of the next failed descriptor to notify
    mails,          \* notification attempts, in order
    all_notifications_succeeded,
    rp_api,         \* the target concourse_api of the current bucket talks to
    rp_return,      \* <<value>> once process_results has returned
    enumerated,     \* the descriptors as the enumerators yielded them
    completed,      \* the tasks of the replicator's pool, in completion order
    en_kind,        \* the enumerator at work: "file", "repository", "organisation"
    en_file,        \* the definition file of the single-file enumerator
    en_repos,       \* the repositories the enumerator scans
    en_task,        \* per repository: the pool task that calls the scan
    en_repo,        \* index of the repository whose scan is consumed
    en_branch,      \* index of the branch pair the scan is at
    en_scans,       \* per repository: what its scan yielded, in order
    en_stream,      \* the descriptors the enumerator has yielded, in order
    en_pc,          \* position of the consumed enumerator
    cfg_collection, \* a branch configuration (the entries of `cfgs`, in order)
    cfg_branch,     \* the branch name resolved against it
    cfg_result,     \* <<value>> once cfg_entry_for_branch has returned
    mg_definition,  \* pipeline_definition of a descriptor handed to _render
    mg_overrides,   \* its override_definitions
    mg_effective,   \* <<effective_definition>> once _render has merged them
    tr_cache,       \* the cached names of template_contents, least recent first
    tr_requested,   \* number of other template names requested so far
    tr_call,        \* per caller: the template whose file it reads, if any
    tr_reads,       \* number of reads of the default template's file
    tr_succeeded,   \* a call for the default template has returned
    tr_reread,      \* a call begun after that read the file again
    tg_triage,      \* the triage handed to add_triage (its own scope)
    tg_scope,       \* the scope argument: <<>> if not given
    tg_product_id,  \* the product_id argument: <<>> for None
    tg_group_id,    \* the group_id argument: <<>> for None
    tg_outcome,     \* <<outcome>> once add_triage has run
    pl_task,        \* the tasks submitted to a pool of workers, in order
    rr_stopped      \* the earlier runs that stopped within a sweep: target and pipeline list left behind

vars == <<descs, enum_done, task, render_results, deploy_results, render_calls, deploy_calls, server_calls, set_responses, deploy_raised, deployer, pipelines, faults, rp_pc, results, rp_bucket, rp_log, rp_failed, rp_next, mails, all_notifications_succeeded, rp_api, rp_return, enumerated, completed, en_kind, en_file, en_repos, en_task, en_repo, en_branch, en_scans, en_stream, en_pc, cfg_collection, cfg_branch, cfg_result, mg_definition, mg_overrides, mg_effective, tr_cache, tr_requested, tr_call, tr_reads, tr_succeeded, tr_reread, tg_triage, tg_scope, tg_product_id, tg_group_id, tg_outcome, pl_task, rr_stopped>>

task_vars == <<descs, task, render_results, deploy_results, render_calls, deploy_calls, server_calls, set_responses, deploy_raised, enumerated, completed>>

rp_vars == <<rp_pc, results, rp_bucket, rp_log, rp_failed, rp_next, mails, all_notifications_succeeded, rp_api, rp_return>>

\* the state of the enumerators
en_vars == <<en_kind, en_file, en_repos, en_task, en_repo, en_branch, en_scans, en_stream, en_pc>>

\* the arguments and the result of BranchCfg.cfg_entry_for_branch
cfg_vars == <<cfg_collection, cfg_branch, cfg_result>>

\* the arguments and the merge of Renderer._render
mg_vars == <<mg_definition, mg_overrides, mg_effective>>

\* the cache of TemplateRetriever.template_contents and its callers
tr_vars == <<tr_cache, tr_requested, tr_call, tr_reads, tr_succeeded, tr_reread>>

\* the arguments and the outcome of ProtecodeApi.add_triage
tg_vars == <<tg_triage, tg_scope, tg_product_id, tg_group_id, tg_outcome>>

\* the tasks of a ThreadPoolExecutor
pl_vars == <<pl_task>>

rr_vars == <<rr_stopped>>

\* the state of the components that are looked at on their own
ext_vars == <<tr_vars, tg_vars, pl_vars, rr_vars>>

\* the state the replicator's run leaves alone
aux_vars == <<en_vars, cfg_vars, mg_vars, ext_vars>>

\* the replicator before replicate() is called
ReplicatorInit ==
    /\ descs = <<>>
    /\ enum_done = FALSE
    /\ task = <<>>
    /\ render_results = <<>>
    /\ deploy_results = <<>>
    /\ render_calls = <<>>
    /\ deploy_calls = <<>>
    /\ server_calls = <<>>
    /\ set_responses = <<>>
    /\ deploy_raised = <<>>
    /\ deployer \in DeployerSettings
    /\ pipelines \in InitialPipelines
    /\ faults = 0
    /\ rp_pc = "replicate"
    /\ results = <<>>
    /\ rp_bucket = 0
    /\ rp_log = <<>>
    /\ rp_failed = <<>>
    /\ rp_next = 0
    /\ mails = <<>>
    /\ all_notifications_succeeded = TRUE
    /\ rp_api = <<None, None>>
    /\ rp_return = <<>>
    /\ enumerated = <<>>
    /\ completed = <<>>

\* no enumerator is being consumed
EnumeratorsIdle ==
    /\ en_kind = None
    /\ en_file = None
    /\ en_repos = <<>>
    /\ en_task = <<>>
    /\ en_repo = 0
    /\ en_branch = 0
    /\ en_scans = <<>>
    /\ en_stream = <<>>
    /\ en_pc = "idle"

\* no branch is being resolved
BranchCfgIdle ==
    /\ cfg_collection = <<>>
    /\ cfg_branch = None
    /\ cfg_result = <<>>

\* no definition is being merged
MergeIdle ==
    /\ mg_definition = EmptyMap
    /\ mg_overrides = <<>>
    /\ mg_effective = <<>>

\* nothing was asked of the template retriever
TemplatesIdle ==
    /\ tr_cache = <<>>
    /\ tr_requested = 0
    /\ tr_call = <<>>
    /\ tr_reads = 0
    /\ tr_succeeded = FALSE
    /\ tr_reread = FALSE

\* no triage is being added
TriageIdle ==
    /\ tg_triage = None
    /\ tg_scope = <<>>
    /\ tg_product_id = <<>>
    /\ tg_group_id = <<>>
    /\ tg_outcome = <<>>

\* nothing was submitted to the pool
PoolIdle == pl_task = <<>>

\* no run went before this one
FirstRun == rr_stopped = <<>>

\* the components that are looked at on their own are idle
ExtIdle == TemplatesIdle /\ TriageIdle /\ PoolIdle /\ FirstRun

Init == ReplicatorInit /\ EnumeratorsIdle /\ BranchCfgIdle /\ MergeIdle /\ ExtIdle

(***************************************************************************)
(* Renderer.                                                               *)
(***************************************************************************)
format_exc(error) == "Traceback: " \o error

\* fail raises an Exception, which `except Exception` catches
fail_Raises(msg) == "raise"

\* util.fail(msg): prints the message and ends the interpreter (SystemExit,
\* which `except Exception` does not catch)
fail(msg) == "exit"

\* TemplateRetriever.template_file: the template is found under the paths
TemplateFileFound(name) == name \in TemplatesPresent

\* a wrong connective in the check for an ambiguous definition
JobsAndVariants_Differ(jobs, variants) == Truthy(jobs) # Truthy(variants)

\* `if jobs and variants`: both declarations are present and not empty
JobsAndVariants(jobs, variants) == Truthy(jobs) /\ Truthy(variants)

\* Renderer._render; `fault` names the external call that raises, if any.
\* The outcome is "ok", "raise" (an Exception) or "exit" (fail() of the
\* template retriever ends the interpreter with SystemExit)
RenderInner(d, fault) ==
    LET effective_definition == MergeAll(d.pipeline_definition, d.override_definitions)
        jobs == Get(effective_definition, "jobs", Map(EmptyMap))
        variants == Get(effective_definition, "variants", Map(EmptyMap))
    IN  IF ~TemplateFileFound(template_name(d))
        THEN [kind |-> fail("could not find template"), descriptor |-> d, error |-> "could not find template"]
        ELSE IF JobsAndVariants(jobs, variants)
        THEN [kind |-> "raise", descriptor |-> d, error |-> "RuntimeError: Both 'jobs' and 'variants' are defined"]
        ELSE IF fault = "factory"
        THEN [kind |-> "raise", descriptor |-> d, error |-> "create_pipeline_definition raised"]
        ELSE IF fault = "template"
        THEN [kind |-> "raise", descriptor |-> d, error |-> "Template.render raised"]
        ELSE [kind |-> "ok", descriptor |-> [d EXCEPT !.pipeline = "rendered " \o d.pipeline_name], error |-> None]

\* variant.has_main_repository() of the pipeline-definition factory: a
\* variant has the repository its base definition declares under `repo`
has_main_repository(base_definition) == "repo" \in DOMAIN base_definition.v

\* Renderer._render, `pipeline_metadata['pipeline_name']`: the name of the
\* raw definition, which is the descriptor's pipeline_name, followed by the
\* branch of the first variant that has a main repository
FinalPipelineName(d) ==
    LET effective_definition == MergeAll(d.pipeline_definition, d.override_definitions)
        jobs == Get(effective_definition, "jobs", Map(EmptyMap))
        variants == IF Truthy(jobs) THEN jobs ELSE Get(effective_definition, "variants", Map(EmptyMap))
        base_definition == Get(effective_definition, "base_definition", Map(EmptyMap))
    IN  IF Truthy(variants) /\ has_main_repository(base_definition)
        THEN d.pipeline_name \o "-" \o base_definition.v["repo"].v["branch"].v
        ELSE d.pipeline_name

\* render without its `try`: an Exception of _render leaves render
Render_Uncaught(d, fault) ==
    LET r == RenderInner(d, fault)
    IN  IF r.kind = "ok"
        THEN [exit |-> FALSE, render_status |-> RenderSUCCEEDED, definition_descriptor |-> r.descriptor, error_details |-> None]
        ELSE [exit |-> TRUE, render_status |-> None, definition_descriptor |-> d, error_details |-> r.error]

\* Renderer.render: every Exception of _render becomes a FAILED result
Render(d, fault) ==
    LET r == RenderInner(d, fault)
    IN  IF r.kind = "ok"
        THEN [exit |-> FALSE, render_status |-> RenderSUCCEEDED, definition_descriptor |-> r.descriptor, error_details |-> None]
        ELSE IF r.kind = "raise"
        THEN [exit |-> FALSE, render_status |-> RenderFAILED, definition_descriptor |-> d, error_details |-> format_exc(r.error)]
        ELSE [exit |-> TRUE, render_status |-> None, definition_descriptor |-> d, error_details |-> r.error]

RenderFaults == {"none", "factory", "template"}

(***************************************************************************)
(* ConcourseDeployer.                                                      *)
(***************************************************************************)
DeployResult(deploy_status, error_details) ==
    [deploy_status |-> deploy_status, error_details |-> error_details]

\* what api.set_pipeline reports for a name, given the target's pipelines
SetPipelineResponse(name, plist) ==
    IF name \in Range(plist) THEN SetUPDATED ELSE SetCREATED

\* the CI server's pipeline list after set_pipeline(name)
SetPipeline(name, plist) ==
    IF name \in Range(plist) THEN plist ELSE Append(plist, name)

\* the CI server calls deploy makes, in order, when none of them raises
DeployPlan(d, settings) ==
    <<"from_cfg", "set_pipeline">>
    \o (IF settings.unpause_pipelines THEN <<"unpause_pipeline">> ELSE <<>>)
    \o (IF settings.expose_pipelines THEN <<"expose_pipeline">> ELSE <<>>)

\* `deploy_status = CREATED` in place of `deploy_status |= CREATED`
DeployStatusFor_Overwritten(response) ==
    IF response = SetCREATED THEN CREATED ELSE SUCCEEDED

\* the status deploy derives from the response of set_pipeline
DeployStatusFor(response) ==
    IF response = SetCREATED THEN BitOr(SUCCEEDED, CREATED) ELSE SUCCEEDED

\* deploy with a handler that takes back what was applied: after a failure
\* the pipeline that was set is deleted again
Deploy_RolledBack(d, settings, plist, n, odd_response) ==
    LET plan == DeployPlan(d, settings)
        raised == n < Len(plan)
        made == SubSeq(plan, 1, IF raised THEN n + 1 ELSE n)
        was_set == n >= 2
        failed == raised \/ odd_response
        response == SetPipelineResponse(d.pipeline_name, plist)
    IN  [calls |-> IF was_set /\ failed THEN Append(made, "delete_pipeline") ELSE made,
         pipelines |-> IF ~was_set THEN plist
                       ELSE IF failed THEN Without(plist, {d.pipeline_name})
                       ELSE SetPipeline(d.pipeline_name, plist),
         response |-> IF was_set THEN (IF odd_response THEN "other" ELSE response) ELSE None,
         raised_at |-> IF raised THEN made[Len(made)] ELSE IF odd_response THEN "response" ELSE None,
         result |->
            IF raised THEN DeployResult(FAILED, format_exc(made[Len(made)] \o " raised"))
            ELSE IF odd_response THEN DeployResult(FAILED, format_exc("NotImplementedError"))
            ELSE DeployResult(DeployStatusFor(response), None)]

\* ConcourseDeployer.deploy. `n` calls of the plan succeed; if n is less
\* than the length of the plan, call n+1 raises. `odd_response`: the client
\* returns neither CREATED nor UPDATED. `raised_at` names the step that
\* raised: a call of the plan, or the interpretation of the response.
Deploy(d, settings, plist, n, odd_response) ==
    LET plan == DeployPlan(d, settings)
        raised == n < Len(plan)
        made == SubSeq(plan, 1, IF raised THEN n + 1 ELSE n)
        was_set == n >= 2
        response == SetPipelineResponse(d.pipeline_name, plist)
    IN  [calls |-> made,
         pipelines |-> IF was_set THEN SetPipeline(d.pipeline_name, plist) ELSE plist,
         response |-> IF was_set THEN (IF odd_response THEN "other" ELSE response) ELSE None,
         raised_at |-> IF raised THEN made[Len(made)] ELSE IF odd_response THEN "response" ELSE None,
         result |->
            IF raised THEN DeployResult(FAILED, format_exc(made[Len(made)] \o " raised"))
            ELSE IF odd_response THEN DeployResult(FAILED, format_exc("NotImplementedError"))
            ELSE DeployResult(DeployStatusFor(response), None)]

(***************************************************************************)
(* PipelineReplicator: one worker task per enumerated descriptor.          *)
(***************************************************************************)
NoRenderResult == [exit |-> FALSE, render_status |-> None, error_details |-> None]

NoDeployResult == DeployResult(0, None)

NoDeploy(plist) == [calls |-> <<>>, pipelines |-> plist, response |-> None, raised_at |-> None, result |-> NoDeployResult]

\* the discovery error of a descriptor is not looked at
HasDiscoveryError_Ignored(d) == FALSE

\* `if definition_descriptor.exception`
HasDiscoveryError(d) == d.exception # None

\* the render status is not looked at: every rendered descriptor is deployed
RenderSucceeded_Always(rendered) == TRUE

\* `if result.render_status == RenderStatus.SUCCEEDED`
RenderSucceeded(rendered) == rendered.render_status = RenderSUCCEEDED

\* PipelineReplicator._process_definition_descriptor for the descriptor d:
\* what it returns and what it calls. render_fault, n and odd_response
\* choose the behaviour of the external collaborators.
ProcessDescriptor(d, settings, plist, render_fault, n, odd_response) ==
    IF HasDiscoveryError(d)
    THEN [descriptor |-> d, raised |-> FALSE, render_calls |-> 0, deploy_calls |-> 0,
          render_result |-> NoRenderResult, deploy |-> NoDeploy(plist),
          result |-> DeployResult(SKIPPED, d.exception)]
    ELSE LET preprocessed == process_definition_descriptor(d)
             rendered == Render(preprocessed, render_fault)
             render_result == [exit |-> rendered.exit, render_status |-> rendered.render_status, error_details |-> rendered.error_details]
         IN  IF rendered.exit
             THEN [descriptor |-> preprocessed, raised |-> TRUE, render_calls |-> 1, deploy_calls |-> 0,
                   render_result |-> render_result, deploy |-> NoDeploy(plist),
                   result |-> NoDeployResult]
             ELSE IF RenderSucceeded(rendered)
             THEN LET deployed == Deploy(rendered.definition_descriptor, settings, plist, n, odd_response)
                  IN  [descriptor |-> rendered.definition_descriptor, raised |-> FALSE, render_calls |-> 1, deploy_calls |-> 1,
                       render_result |-> render_result, deploy |-> deployed,
                       result |-> deployed.result]
             ELSE [descriptor |-> preprocessed, raised |-> FALSE, render_calls |-> 1, deploy_calls |-> 0,
                   render_result |-> render_result, deploy |-> NoDeploy(plist),
                   result |-> DeployResult(SKIPPED, rendered.error_details)]

\* number of external calls that raised in an outcome of ProcessDescriptor
FaultsIn(outcome, render_fault) ==
    (IF render_fault # "none" THEN 1 ELSE 0)
    + (IF outcome.deploy_calls = 1 /\ BitAnd(outcome.result.deploy_status, FAILED) # 0 THEN 1 ELSE 0)

\* an enumerator yields the next descriptor and executor.map submits its task
Enumerate ==
    /\ rp_pc = "replicate"
    /\ ~enum_done
    /\ Len(descs) < MaxDescriptors
    /\ \E d \in DescriptorPool :
        /\ descs' = Append(descs, d)
        /\ task' = Append(task, "submitted")
        /\ render_results' = Append(render_results, NoRenderResult)
        /\ deploy_results' = Append(deploy_results, NoDeployResult)
        /\ render_calls' = Append(render_calls, 0)
        /\ deploy_calls' = Append(deploy_calls, 0)
        /\ server_calls' = Append(server_calls, <<>>)
        /\ set_responses' = Append(set_responses, None)
        /\ deploy_raised' = Append(deploy_raised, None)
        /\ enumerated' = Append(enumerated, d)
    /\ UNCHANGED completed
    /\ UNCHANGED <<enum_done, deployer, pipelines, faults, rp_vars, rp_api, aux_vars>>

\* the enumerators are exhausted
EnumerationDone ==
    /\ rp_pc = "replicate"
    /\ ~enum_done
    /\ enum_done' = TRUE
    /\ UNCHANGED <<task_vars, deployer, pipelines, faults, rp_vars, rp_api, aux_vars>>

\* a worker runs _process_definition_descriptor for descriptor i and the
\* future of the task gets its result
RunTask(i) ==
    /\ rp_pc = "replicate"
    /\ task[i] = "submitted"
    /\ \E render_fault \in RenderFaults, n \in 0..Len(DeployPlan(descs[i], deployer)), odd_response \in BOOLEAN :
        LET d == descs[i]
            target == concourse_target(d)
            plan_len == Len(DeployPlan(d, deployer))
            outcome == ProcessDescriptor(d, deployer, pipelines[target], render_fault, n, odd_response)
            used == FaultsIn(outcome, render_fault)
        IN  /\ odd_response => n = plan_len
            \* choices that the outcome does not depend on are taken once
            /\ outcome.deploy_calls = 0 => (n = plan_len /\ ~odd_response)
            /\ render_fault # "none" => Render(process_definition_descriptor(d), "none").render_status = RenderSUCCEEDED
            /\ d.exception # None => render_fault = "none"
            /\ faults + used <= MaxFaults
            /\ faults' = faults + used
            /\ descs' = [descs EXCEPT ![i] = outcome.descriptor]
            /\ task' = [task EXCEPT ![i] = IF outcome.raised THEN "raised" ELSE "done"]
            /\ render_results' = [render_results EXCEPT ![i] = outcome.render_result]
            /\ deploy_results' = [deploy_results EXCEPT ![i] = outcome.result]
            /\ render_calls' = [render_calls EXCEPT ![i] = @ + outcome.render_calls]
            /\ deploy_calls' = [deploy_calls EXCEPT ![i] = @ + outcome.deploy_calls]
            /\ server_calls' = [server_calls EXCEPT ![i] = @ \o outcome.deploy.calls]
            /\ set_responses' = [set_responses EXCEPT ![i] = outcome.deploy.response]
            /\ deploy_raised' = [deploy_raised EXCEPT ![i] = outcome.deploy.raised_at]
            /\ pipelines' = [pipelines EXCEPT ![target] = outcome.deploy.pipelines]
    /\ UNCHANGED enumerated
    /\ UNCHANGED <<enum_done, deployer, rp_vars, rp_api, aux_vars>>

\* the task of descriptor i runs to its end
ProcessDefinitionDescriptor(i) == RunTask(i) /\ UNCHANGED completed

\* the same, the order in which the tasks end being recorded
TaskCompletes(i) == RunTask(i) /\ completed' = Append(completed, i)

(***************************************************************************)
(* replicate() hands the results to process_results.                       *)
(***************************************************************************)
\* the distinct elements of a list, in order of first appearance
RECURSIVE Distinct(_)
Distinct(s) ==
    IF s = <<>> THEN <<>>
    ELSE LET rest == Distinct(SubSeq(s, 1, Len(s) - 1))
             last == s[Len(s)]
         IN  IF last \in Range(rest) THEN rest ELSE Append(rest, last)

\* the keys of concourse_target_results, in insertion order
TargetKeys(res) == Distinct([k \in 1..Len(res) |-> concourse_target_key(descs[res[k]])])

\* the results are not separated by key: every bucket holds all of them
Bucket_Unkeyed(res, key) == Range(res)

\* concourse_target_results[key]
Bucket(res, key) == {i \in Range(res) : concourse_target_key(descs[i]) = key}

\* every ordering of the elements of a set (iteration order of a set)
Orderings(S) == {s \in [1..Cardinality(S) -> S] : Range(s) = S}

RECURSIVE Flatten(_)
Flatten(ss) == IF ss = <<>> THEN <<>> ELSE Head(ss) \o Flatten(Tail(ss))

\* a CI server call of the result processor; the argument of a listing is
\* the list it returns
Call(op, arg) == [op |-> op, arg |-> arg]

\* the CI server's pipeline list of a target after a successful call
ApplyCall(plist, call) ==
    IF call.op = "delete_pipeline" THEN Without(plist, {call.arg[1]})
    ELSE IF call.op = "order_pipelines" THEN call.arg
    ELSE plist

RECURSIVE ApplyCalls(_, _)
ApplyCalls(plist, calls) ==
    IF calls = <<>> THEN plist
    ELSE ApplyCalls(ApplyCall(plist, Head(calls)), Tail(calls))

\* the log entries of a phase whose first n calls succeed; call n+1, if
\* the plan has one, raises
Logged(target, plan, n) ==
    [k \in 1..(IF n < Len(plan) THEN n + 1 ELSE n) |->
        [target |-> target, op |-> plan[k].op, arg |-> plan[k].arg, ok |-> k <= n]]

\* the result of the task submitted last is not collected
CollectedResults_LastDropped(n, finished) == [i \in 1..(n - 1) |-> i]

\* the results are handed out in the order in which the tasks ended
CollectedResults_AsCompleted(n, finished) ==
    IF Len(finished) = n THEN finished ELSE [i \in 1..n |-> i]

\* `for result in self._replicate(): results.append(result)`: executor.map
\* hands out the results of the n tasks in the order of its input, the
\* enumerated descriptors, whatever the order `finished` in which they ended
CollectedResults(n, finished) == [i \in 1..n |-> i]

\* the results are handed on as soon as one task has returned
ResultsExhausted_FirstResult ==
    /\ enum_done
    /\ \E i \in 1..Len(descs) : task[i] = "done"
    /\ \A i \in 1..Len(descs) : task[i] # "raised"

\* the loop over self._replicate() has ended: the enumerators are
\* exhausted and executor.map has handed out the result of every task
ResultsExhausted ==
    /\ enum_done
    /\ \A i \in 1..Len(descs) : task[i] = "done"

\* process_results leaves at once when it is handed no result, and returns
\* no value
AfterGrouping_EmptyReturnsNothing(res) == IF res = <<>> THEN "returned" ELSE "delete"

\* process_results after it grouped the results by target key: the loop
\* over concourse_target_results sweeps the first bucket, or has nothing to
\* iterate and the evaluation of the results follows
AfterGrouping(res) == IF TargetKeys(res) = <<>> THEN "evaluate" ELSE "delete"

\* replicate(): every task has returned; process_results(results) is called
CallProcessResults ==
    /\ rp_pc = "replicate"
    /\ ResultsExhausted
    /\ results' = CollectedResults(Len(descs), completed)
    /\ rp_bucket' = 1
    /\ rp_pc' = AfterGrouping(CollectedResults(Len(descs), completed))
    /\ UNCHANGED <<task_vars, enum_done, deployer, pipelines, faults, rp_log, rp_failed, rp_next, mails, all_notifications_succeeded, rp_api, rp_return, aux_vars>>

\* replicate(): a task ended with SystemExit, which the collection of the
\* results raises again: process_results is not called
ReplicateRaises ==
    /\ rp_pc = "replicate"
    /\ enum_done
    /\ \A i \in 1..Len(descs) : task[i] # "submitted"
    /\ \E i \in 1..Len(descs) : task[i] = "raised"
    /\ rp_pc' = "aborted"
    /\ UNCHANGED <<task_vars, enum_done, deployer, pipelines, faults, results, rp_bucket, rp_log, rp_failed, rp_next, mails, all_notifications_succeeded, rp_api, rp_return, aux_vars>>

(***************************************************************************)
(* ReplicationResultProcessor.process_results: the sweep of one bucket.    *)
(***************************************************************************)
\* the names of the results that were not skipped
DeployedPipelineNames_NotSkipped(bucket) ==
    {descs[i].pipeline_name : i \in {j \in bucket : BitAnd(deploy_results[j].deploy_status, SKIPPED) = 0}}

\* deployed_pipeline_names of a bucket
DeployedPipelineNames(bucket) == {descs[i].pipeline_name : i \in bucket}

\* only the pipelines of the results that succeeded are kept
PipelinesToRemove_KeepSucceeded(plist, bucket) ==
    Range(plist) \ {descs[i].pipeline_name : i \in {j \in bucket : BitAnd(deploy_results[j].deploy_status, SUCCEEDED) # 0}}

\* nothing is removed from a target for which the discovery of a
\* definitions file failed
PipelinesToRemove_UnlessDiscoveryFailed(plist, bucket) ==
    IF \E i \in bucket : descs[i].exception # None THEN {}
    ELSE Range(plist) \ DeployedPipelineNames(bucket)

\* pipelines_to_remove
PipelinesToRemove(plist, bucket) == Range(plist) \ DeployedPipelineNames(bucket)

\* the sweep lists the pipelines of the target and deletes none
DeletePlan_ListOnly(plist, order) ==
    <<Call("from_cfg", <<>>), Call("pipelines", plist)>>

\* the calls of the first part of the sweep: client, listing, deletions
DeletePlan(plist, order) ==
    <<Call("from_cfg", <<>>), Call("pipelines", plist)>>
    \o [k \in 1..Len(order) |-> Call("delete_pipeline", <<order[k]>>)]

\* the filter tests the SUCCEEDED bit in place of the CREATED bit
NewlyDeployed_Succeeded(bucket) == {i \in bucket : BitAnd(deploy_results[i].deploy_status, SUCCEEDED) # 0}

\* the results _initialise_new_pipeline_resources selects
NewlyDeployed(bucket) == {i \in bucket : BitAnd(deploy_results[i].deploy_status, CREATED) # 0}

\* the resources whose check is triggered
WebhookResources(pipeline_name) ==
    SelectSeq(PipelineResources(pipeline_name), LAMBDA resource : resource.has_webhook_token)

\* the calls _initialise_new_pipeline_resources makes for one new pipeline
InitialisePipelinePlan(pipeline_name) ==
    <<Call("unpause_pipeline", <<pipeline_name>>), Call("pipeline_resources", <<pipeline_name>>)>>
    \o [k \in 1..Len(WebhookResources(pipeline_name)) |->
            Call("trigger_resource_check", <<pipeline_name, WebhookResources(pipeline_name)[k].name>>)]

InitialisePlan(order) ==
    Flatten([k \in 1..Len(order) |-> InitialisePipelinePlan(descs[order[k]].pipeline_name)])

\* the list is handed to order_pipelines as the server returned it
OrderPlan_Unsorted(plist) ==
    <<Call("pipelines", plist), Call("order_pipelines", plist)>>

\* the calls of the last part of the sweep: listing, sort, reordering
OrderPlan(plist) ==
    <<Call("pipelines", plist), Call("order_pipelines", SortNames(plist))>>

\* the position after a phase: the next phase, or the exception leaves
\* process_results
AfterPhase(plan, n, next_pc) == IF n < Len(plan) THEN "raised" ELSE next_pc

SweepDelete ==
    /\ rp_pc = "delete"
    /\ LET key == TargetKeys(results)[rp_bucket]
           bucket == Bucket(results, key)
       IN  \E first \in bucket :
            LET target == concourse_target(descs[first])
            IN  \E order \in Orderings(PipelinesToRemove(pipelines[target], bucket)) :
                 \E n \in 0..Len(DeletePlan(pipelines[target], order)) :
                    LET plan == DeletePlan(pipelines[target], order)
                    IN  /\ n < Len(plan) => faults < MaxFaults
                        /\ faults' = IF n < Len(plan) THEN faults + 1 ELSE faults
                        /\ rp_api' = target
                        /\ rp_log' = rp_log \o Logged(target, plan, n)
                        /\ pipelines' = [pipelines EXCEPT ![target] = ApplyCalls(@, SubSeq(plan, 1, n))]
                        /\ rp_pc' = AfterPhase(plan, n, "initialise")
    /\ UNCHANGED <<task_vars, enum_done, deployer, results, rp_bucket, rp_failed, rp_next, mails, all_notifications_succeeded, rp_return, aux_vars>>

SweepInitialise ==
    /\ rp_pc = "initialise"
    /\ LET key == TargetKeys(results)[rp_bucket]
           bucket == Bucket(results, key)
       IN  \E order \in Orderings(NewlyDeployed(bucket)) :
            \E n \in 0..Len(InitialisePlan(order)) :
                LET plan == InitialisePlan(order)
                IN  /\ n < Len(plan) => faults < MaxFaults
                    /\ faults' = IF n < Len(plan) THEN faults + 1 ELSE faults
                    /\ rp_log' = rp_log \o Logged(rp_api, plan, n)
                    /\ rp_pc' = AfterPhase(plan, n, "order")
    /\ UNCHANGED <<task_vars, enum_done, deployer, pipelines, results, rp_bucket, rp_failed, rp_next, mails, all_notifications_succeeded, rp_api, rp_return, aux_vars>>

SweepOrder ==
    /\ rp_pc = "order"
    /\ \E n \in 0..Len(OrderPlan(pipelines[rp_api])) :
        LET plan == OrderPlan(pipelines[rp_api])
            last == rp_bucket = Len(TargetKeys(results))
        IN  /\ n < Len(plan) => faults < MaxFaults
            /\ faults' = IF n < Len(plan) THEN faults + 1 ELSE faults
            /\ rp_log' = rp_log \o Logged(rp_api, plan, n)
            /\ pipelines' = [pipelines EXCEPT ![rp_api] = ApplyCalls(@, SubSeq(plan, 1, n))]
            /\ rp_pc' = AfterPhase(plan, n, IF last THEN "evaluate" ELSE "delete")
            /\ rp_bucket' = IF n = Len(plan) /\ ~last THEN rp_bucket + 1 ELSE rp_bucket
    /\ UNCHANGED <<task_vars, enum_done, deployer, results, rp_failed, rp_next, mails, all_notifications_succeeded, rp_api, rp_return, aux_vars>>

(***************************************************************************)
(* process_results: evaluation of the results and owner notification.      *)
(***************************************************************************)
\* failed_descriptors
FailedDescriptors(res) ==
    SelectSeq(res, LAMBDA i : BitAnd(deploy_results[i].deploy_status, SUCCEEDED) = 0)

Evaluate ==
    /\ rp_pc = "evaluate"
    /\ rp_failed' = FailedDescriptors(results)
    /\ IF Len(FailedDescriptors(results)) = 0
       THEN /\ rp_return' = <<TRUE>>
            /\ rp_pc' = "returned"
            /\ UNCHANGED <<rp_next, all_notifications_succeeded>>
       ELSE /\ all_notifications_succeeded' = TRUE
            /\ rp_next' = 1
            /\ rp_pc' = "notify"
            /\ UNCHANGED rp_return
    /\ UNCHANGED <<task_vars, enum_done, deployer, pipelines, faults, results, rp_bucket, rp_log, mails, rp_api, aux_vars>>

\* the flag is overwritten by the outcome of the last attempt
NotificationsSucceeded_LastOnly(all_succeeded, sent) == sent

\* all_notifications_succeeded after one notification attempt
NotificationsSucceeded(all_succeeded, sent) == IF sent THEN all_succeeded ELSE FALSE

\* a raising notification ends the loop
NextFailedDescriptor_StopOnError(next, sent, total) == IF sent THEN next + 1 ELSE total + 1

\* the loop over failed_descriptors goes on with the next one, whether or
\* not the notification raised
NextFailedDescriptor(next, sent, total) == next + 1

\* one pass of the loop over failed_descriptors: the notification
\* succeeds, or raises and is caught
Notify ==
    /\ rp_pc = "notify"
    /\ rp_next <= Len(rp_failed)
    /\ \E sent \in BOOLEAN :
        /\ ~sent => faults < MaxFaults
        /\ faults' = IF sent THEN faults ELSE faults + 1
        /\ mails' = Append(mails, [result |-> rp_failed[rp_next], sent |-> sent, body |-> "Error details: " \o deploy_results[rp_failed[rp_next]].error_details])
        /\ all_notifications_succeeded' = NotificationsSucceeded(all_notifications_succeeded, sent)
        /\ rp_next' = NextFailedDescriptor(rp_next, sent, Len(rp_failed))
    /\ UNCHANGED <<task_vars, enum_done, deployer, pipelines, results, rp_bucket, rp_log, rp_failed, rp_pc, rp_api, rp_return, aux_vars>>

Return ==
    /\ rp_pc = "notify"
    /\ rp_next > Len(rp_failed)
    /\ rp_return' = <<all_notifications_succeeded>>
    /\ rp_pc' = "returned"
    /\ UNCHANGED <<task_vars, enum_done, deployer, pipelines, faults, results, rp_bucket, rp_log, rp_failed, rp_next, mails, all_notifications_succeeded, rp_api, aux_vars>>

Next ==
    \/ Enumerate
    \/ EnumerationDone
    \/ \E i \in 1..Len(descs) : ProcessDefinitionDescriptor(i)
    \/ CallProcessResults
    \/ ReplicateRaises
    \/ SweepDelete
    \/ SweepInitialise
    \/ SweepOrder
    \/ Evaluate
    \/ Notify
    \/ Return

Spec == Init /\ [][Next]_vars

(***************************************************************************)
(* The definition enumerators. A repository is                             *)
(* [name, branch_cfg, default_branch, branch_list, files]; branch_cfg is   *)
(* what the read of branch.cfg gives, files what the read of               *)
(* .ci/pipeline_definitions gives on every branch: a file is               *)
(* [state, names, definitions, wrap_fails_at], names being the keys of the *)
(* document in order.                                                      *)
(***************************************************************************)
OrgName == "org"

JobMappingTeam == "a"

\* a file that was read and parsed; wrap_fails_at = k > 0: the construction
\* of the k-th DefinitionDescriptor raises
ParsedFile(names, definitions, wrap_fails_at) ==
    [state |-> "ok", names |-> names, definitions |-> definitions, wrap_fails_at |-> wrap_fails_at]

\* a file that is absent (the read signals NotFoundError), whose read fails
\* otherwise ("error"), or whose content does not parse ("unparsable")
OtherFile(state) ==
    [state |-> state, names |-> <<>>, definitions |-> EmptyMap, wrap_fails_at |-> 0]

TwoDefinitions ==
    ("p" :> Map("jobs" :> OneVariant("v1"))) @@ ("q" :> Map("variants" :> OneVariant("v1")))

FileStates ==
    { OtherFile("absent"), OtherFile("error"), OtherFile("unparsable"),
      ParsedFile(<<"q", "p">>, TwoDefinitions, 0),
      ParsedFile(<<"q", "p">>, TwoDefinitions, 2) }

BranchList == <<"m", "rel">>

\* what the read of branch.cfg at refs/meta/ci gives
BranchCfgStates ==
    { [state |-> "absent", cfgs |-> <<>>],
      [state |-> "error", cfgs |-> <<>>],
      [state |-> "ok", cfgs |-> <<BranchCfgEntry("all", ("branches" :> Scalar(<<".*">>)) @@ ("inherit" :> Map(("p" :> Map("x" :> Scalar("1"))) @@ ("n" :> Map("jobs" :> OneVariant("v2"))))))>>],
      [state |-> "ok", cfgs |-> <<BranchCfgEntry("release", ("branches" :> Scalar(<<"re.*">>)))>>] }

Repository(name, branch_cfg, files) ==
    [name |-> name, branch_cfg |-> branch_cfg, default_branch |-> BranchList[1], branch_list |-> BranchList, files |-> files]

\* a branch.cfg whose only entry matches none of the branches
UnmatchedBranchCfg ==
    [state |-> "ok", cfgs |-> <<BranchCfgEntry("dev", ("branches" :> Scalar(<<"dev">>)))>>]

\* the repositories a repository enumerator may be given
RepositoryPool ==
    { Repository("repo", branch_cfg, files) : branch_cfg \in BranchCfgStates \cup {UnmatchedBranchCfg}, files \in [Range(BranchList) -> FileStates] }

\* the repositories an organisation may hold
OrganisationPool ==
    { Repository("repo", branch_cfg, files) :
        branch_cfg \in {c \in BranchCfgStates : c.state # "error"},
        files \in { [b \in Range(BranchList) |-> IF b = BranchList[1] THEN first ELSE ParsedFile(<<"q", "p">>, TwoDefinitions, 0)] :
                    first \in {f \in FileStates : f.state \in {"absent", "unparsable", "ok"}} } }

\* github_org.repositories(): up to MaxRepos repositories, distinct by name
Organisations ==
    UNION { { [k \in 1..n |-> [repos[k] EXCEPT !.name = "repo" \o ToString(k)]] : repos \in [1..n -> OrganisationPool] } : n \in 1..MaxRepos }

\* _determine_repository_branches: [raised, pairs], the pairs
\* <<branch_name, cfg_entry>> in the order in which they are yielded
determine_repository_branches(repository) ==
    IF repository.branch_cfg.state = "error"
    THEN [raised |-> TRUE, pairs |-> <<>>]
    ELSE IF repository.branch_cfg.state = "absent"
    THEN [raised |-> FALSE, pairs |-> << <<repository.default_branch, <<>> >> >>]
    ELSE [raised |-> FALSE,
          pairs |-> SelectSeq(
              [k \in 1..Len(repository.branch_list) |->
                  <<repository.branch_list[k], cfg_entry_for_branch(repository.branch_cfg.cfgs, repository.branch_list[k])>>],
              LAMBDA pair : pair[2] # <<>>)]

\* the keys of the document only
ItemNames_DocumentOnly(names, overrides) == names

\* the keys of merge_dicts(definitions, override_definitions) in iteration
\* order: the keys of the document, then the keys only the overrides have
ItemNames(names, overrides) ==
    names \o SortNames(CHOOSE order \in Orderings(DOMAIN overrides \ Range(names)) : TRUE)

\* _wrap_into_descriptors over the items in order: [yields, raised]
WrapIntoDescriptors(repo_path, repo_hostname, branch, names, definitions, overrides, team, wrap_fails_at) ==
    LET count == IF wrap_fails_at \in 1..Len(names) THEN wrap_fails_at - 1 ELSE Len(names)
    IN  [yields |-> [k \in 1..count |-> WrapIntoDescriptor(repo_path, repo_hostname, branch, names[k], definitions[names[k]].v, overrides, ConcourseCfgName, team)],
         raised |-> count < Len(names)]

\* what the scan does after it has yielded the error descriptor of an
\* unparsable file: `return`
AfterInvalidYaml == "return"

\* the absent file is reported like an unparsable one
DefinitionsNotFound_Captured(repo_path, branch_name) ==
    [yields |-> <<InvalidYamlDescriptor(repo_path, RepoHost, branch_name, ConcourseCfgName, JobMappingTeam, "NotFoundError")>>,
     next |-> "continue"]

\* `except NotFoundError: continue`: no pipeline definition for this branch
DefinitionsNotFound(repo_path, branch_name) == [yields |-> <<>>, next |-> "continue"]

\* one pass of the loop of _scan_repository_for_definitions, for the pair
\* <<branch_name, cfg_entry>>: what it yields and how the loop goes on
\* ("continue", "return", or "raise": the exception leaves the generator)
ScanBranchPair(repository, pair) ==
    LET branch_name == pair[1]
        file == repository.files[branch_name]
        repo_path == OrgName \o "/" \o repository.name
        overrides == IF pair[2] # <<>> THEN override_definitions(pair[2][1]) ELSE EmptyMap
        definitions == merge_dicts(file.definitions, overrides)
        wrapped == WrapIntoDescriptors(repo_path, RepoHost, branch_name, ItemNames(file.names, overrides), definitions, overrides, JobMappingTeam, file.wrap_fails_at)
    IN  IF file.state = "absent" THEN DefinitionsNotFound(repo_path, branch_name)
        ELSE IF file.state = "error" THEN [yields |-> <<>>, next |-> "raise"]
        ELSE IF file.state = "unparsable"
        THEN [yields |-> <<InvalidYamlDescriptor(repo_path, RepoHost, branch_name, ConcourseCfgName, JobMappingTeam, "YAMLError")>>,
              next |-> AfterInvalidYaml]
        ELSE [yields |-> wrapped.yields, next |-> IF wrapped.raised THEN "raise" ELSE "continue"]

\* SimpleFileDefinitionEnumerator.enumerate_definition_descriptors: the
\* sequence it yields
EnumerateDefinitionFile(file) ==
    LET wrapped == WrapIntoDescriptors(RepoPath, RepoHost, BranchName, file.names, file.definitions, EmptyMap, "dummy", file.wrap_fails_at)
        error_descriptor == InvalidYamlDescriptor(RepoPath, RepoHost, BranchName, ConcourseCfgName, "dummy", IF file.state = "ok" THEN "wrap raised" ELSE "parse_yaml_file raised")
    IN  IF file.state # "ok" THEN <<error_descriptor>>
        ELSE IF wrapped.raised THEN wrapped.yields \o <<error_descriptor>>
        ELSE wrapped.yields

\* an enumerator about to be consumed
EnumeratorsInit ==
    /\ en_kind \in {"file", "repository", "organisation"}
    /\ en_file \in IF en_kind = "file" THEN FileStates ELSE {None}
    /\ en_repos \in IF en_kind = "repository" THEN {<<repository>> : repository \in RepositoryPool}
                     ELSE IF en_kind = "organisation" THEN Organisations
                     ELSE {<<>>}
    /\ en_task = [k \in 1..Len(en_repos) |-> IF en_kind = "organisation" THEN "submitted" ELSE "none"]
    /\ en_repo = IF en_kind = "file" THEN 0 ELSE 1
    /\ en_branch = 0
    /\ en_scans = [k \in 1..Len(en_repos) |-> <<>>]
    /\ en_stream = <<>>
    /\ en_pc = "scan"

\* the call runs the scan in the worker up to the end of its first branch
CalledInWorker_Eager(repository) ==
    LET determined == determine_repository_branches(repository)
    IN  IF determined.pairs = <<>> THEN <<>>
        ELSE ScanBranchPair(repository, determined.pairs[1]).yields

\* what the call scan_repository_for_definitions(repository) reads and
\* yields in the worker that makes it: _scan_repository_for_definitions is
\* a generator function, the call runs no line of its body
CalledInWorker(repository) == <<>>

\* a worker of the organisation enumerator's pool calls
\* scan_repository_for_definitions(repository), which creates the
\* generator of the scan without running it
ScanTask(r) ==
    /\ en_kind = "organisation"
    /\ en_task[r] = "submitted"
    /\ en_task' = [en_task EXCEPT ![r] = "done"]
    /\ en_scans' = [en_scans EXCEPT ![r] = @ \o CalledInWorker(en_repos[r])]
    /\ UNCHANGED <<en_kind, en_file, en_repos, en_repo, en_branch, en_stream, en_pc>>
    /\ UNCHANGED <<task_vars, enum_done, deployer, pipelines, faults, rp_vars, cfg_vars, mg_vars, ext_vars>>

\* the scan of the repository en_repo is over: the consumer goes on with
\* the next repository, if there is one
NextRepository ==
    IF en_repo < Len(en_repos)
    THEN en_repo' = en_repo + 1 /\ en_branch' = 0 /\ en_pc' = "scan"
    ELSE en_repo' = en_repo /\ en_branch' = en_branch /\ en_pc' = "done"

\* the scan of the repository en_repo starts: in the organisation
\* enumerator once executor.map hands out the result of its task
DetermineBranches ==
    /\ en_kind \in {"repository", "organisation"}
    /\ en_pc = "scan"
    /\ en_branch = 0
    /\ en_kind = "organisation" => en_task[en_repo] = "done"
    /\ LET determined == determine_repository_branches(en_repos[en_repo])
       IN  IF determined.raised
           THEN en_pc' = "raised" /\ UNCHANGED <<en_repo, en_branch>>
           ELSE IF determined.pairs = <<>>
           THEN NextRepository
           ELSE en_branch' = 1 /\ UNCHANGED <<en_repo, en_pc>>
    /\ UNCHANGED <<en_kind, en_file, en_repos, en_task, en_scans, en_stream>>
    /\ UNCHANGED <<task_vars, enum_done, deployer, pipelines, faults, rp_vars, cfg_vars, mg_vars, ext_vars>>

\* what a scan yields is put in front of the stream
YieldFrom_Prepended(stream, yields) == yields \o stream

\* `yield from definition_descriptors`: what the scan yields is handed on
\* in the order in which it is yielded
YieldFrom(stream, yields) == stream \o yields

\* the scan handles its next branch; what it yields goes to the consumer
ScanBranch ==
    /\ en_kind \in {"repository", "organisation"}
    /\ en_pc = "scan"
    /\ en_branch >= 1
    /\ LET pairs == determine_repository_branches(en_repos[en_repo]).pairs
           scanned == ScanBranchPair(en_repos[en_repo], pairs[en_branch])
       IN  /\ en_scans' = [en_scans EXCEPT ![en_repo] = @ \o scanned.yields]
           /\ en_stream' = YieldFrom(en_stream, scanned.yields)
           /\ IF scanned.next = "raise"
              THEN en_pc' = "raised" /\ UNCHANGED <<en_repo, en_branch>>
              ELSE IF scanned.next = "return" \/ en_branch = Len(pairs)
              THEN NextRepository
              ELSE en_branch' = en_branch + 1 /\ UNCHANGED <<en_repo, en_pc>>
    /\ UNCHANGED <<en_kind, en_file, en_repos, en_task>>
    /\ UNCHANGED <<task_vars, enum_done, deployer, pipelines, faults, rp_vars, cfg_vars, mg_vars, ext_vars>>

\* the single-file enumerator is consumed
EnumerateFile ==
    /\ en_kind = "file"
    /\ en_pc = "scan"
    /\ en_stream' = EnumerateDefinitionFile(en_file)
    /\ en_pc' = "done"
    /\ UNCHANGED <<en_kind, en_file, en_repos, en_task, en_repo, en_branch, en_scans>>
    /\ UNCHANGED <<task_vars, enum_done, deployer, pipelines, faults, rp_vars, cfg_vars, mg_vars, ext_vars>>

EnumeratorsNext ==
    \/ \E r \in 1..Len(en_repos) : ScanTask(r)
    \/ DetermineBranches
    \/ ScanBranch
    \/ EnumerateFile

\* an enumerator is about to be consumed, nothing else goes on
EnumeratorsStart == ReplicatorInit /\ EnumeratorsInit /\ BranchCfgIdle /\ MergeIdle /\ ExtIdle

EnumeratorsSpec == EnumeratorsStart /\ [][EnumeratorsNext]_vars

(***************************************************************************)
(* BranchCfg.cfg_entry_for_branch applied to branch configurations.        *)
(***************************************************************************)
\* the lists of regular expressions an entry may have
BranchPatterns == { <<"m">>, <<".*">>, <<"re.*">>, <<"re", "x">> }

\* the values an entry may have for the optional attribute `index`
IndexValues == {0, 1, 2}

\* the raw mappings the entry `name` of `cfgs` may have
EntryRaws(name) ==
    LET inherit == "inherit" :> Map("p" :> Map("x" :> Scalar(name)))
    IN  { ("branches" :> Scalar(patterns)) @@ inherit : patterns \in BranchPatterns }
        \cup { ("branches" :> Scalar(patterns)) @@ ("index" :> Scalar(index)) @@ inherit :
                  patterns \in BranchPatterns, index \in IndexValues }

\* the k-th key of `cfgs`
EntryName(k) == "e" \o ToString(k)

\* BranchCfg.cfg_entries() of the branch configurations with up to
\* MaxEntries entries
BranchCfgs ==
    UNION { { [k \in 1..n |-> BranchCfgEntry(EntryName(k), raws[k])] :
                raws \in { r \in [1..n -> UNION {EntryRaws(EntryName(k)) : k \in 1..n}] :
                              \A k \in 1..n : r[k] \in EntryRaws(EntryName(k)) } } :
            n \in 0..MaxEntries }

BranchCfgInit ==
    /\ cfg_collection \in BranchCfgs
    /\ cfg_branch \in Range(BranchList)
    /\ cfg_result = <<>>

\* cfg_entry_for_branch(branch) is called and returns
CfgEntryForBranch ==
    /\ cfg_result = <<>>
    /\ cfg_result' = <<cfg_entry_for_branch(cfg_collection, cfg_branch)>>
    /\ UNCHANGED <<cfg_collection, cfg_branch>>
    /\ UNCHANGED <<task_vars, enum_done, deployer, pipelines, faults, rp_vars, en_vars, mg_vars, ext_vars>>

BranchCfgNext == CfgEntryForBranch

\* a branch is about to be resolved, nothing else goes on
BranchCfgStart == ReplicatorInit /\ EnumeratorsIdle /\ BranchCfgInit /\ MergeIdle /\ ExtIdle

BranchCfgSpec == BranchCfgStart /\ [][BranchCfgNext]_vars

(***************************************************************************)
(* The merge of Renderer._render applied to layered definitions.           *)
(***************************************************************************)
\* the values a layer may have for the key x
LayerValues ==
    { Scalar("s"), Map("a" :> Scalar("1")), Map("b" :> Scalar("2")), Map("a" :> Scalar("3")) }

\* the mappings a pipeline_definition or an override layer may be
Layers ==
    { base @@ extra :
        base \in {EmptyMap} \cup { "x" :> value : value \in LayerValues },
        extra \in {EmptyMap, "y" :> Scalar("t")} }

MergeInit ==
    /\ mg_definition \in Layers
    /\ mg_overrides \in UNION { [1..n -> Layers] : n \in 0..MaxLayers }
    /\ mg_effective = <<>>

\* _render merges the definition of the descriptor with its overrides
MergeDefinition ==
    /\ mg_effective = <<>>
    /\ mg_effective' = <<MergeAll(mg_definition, mg_overrides)>>
    /\ UNCHANGED <<mg_definition, mg_overrides>>
    /\ UNCHANGED <<task_vars, enum_done, deployer, pipelines, faults, rp_vars, en_vars, cfg_vars, ext_vars>>

MergeNext == MergeDefinition

\* a definition is about to be merged, nothing else goes on
MergeStart == ReplicatorInit /\ EnumeratorsIdle /\ BranchCfgIdle /\ MergeInit /\ ExtIdle

MergeSpec == MergeStart /\ [][MergeNext]_vars

\* replicate() up to the call of process_results, with the order in which
\* the tasks of the pool end
(***************************************************************************)
(* TemplateRetriever.template_contents, decorated with                     *)
(* functools.lru_cache(): the calls of concurrent renderer tasks for the   *)
(* default template, among calls for other template names.                 *)
(***************************************************************************)
\* maxsize of functools.lru_cache() when the decorator is given none
lru_cache_maxsize == 128

DefaultTemplate == "default"

\* the k-th other template name
OtherTemplate(k) == "t" \o ToString(k)

\* number of other template names that have a file under the template path
OtherTemplates == lru_cache_maxsize + 1

Callers == 1..MaxCallers

\* a hit of the cache: the entry becomes the most recently used one
CacheHit(cache, key) ==
    LET Other(name) == name # key
    IN  Append(SelectSeq(cache, Other), key)

\* the result of a miss is stored: nothing is done if another caller has
\* stored the key meanwhile; a full cache drops its least recently used entry
CacheStore(cache, key) ==
    IF key \in Range(cache) THEN cache
    ELSE IF Len(cache) >= lru_cache_maxsize THEN Append(Tail(cache), key)
    ELSE Append(cache, key)

\* a renderer asks for templates, nothing else goes on
TemplatesInit ==
    /\ tr_cache = <<>>
    /\ tr_requested = 0
    /\ tr_call = [c \in Callers |-> None]
    /\ tr_reads = 0
    /\ tr_succeeded = FALSE
    /\ tr_reread = FALSE

\* template_contents(name) for a name not asked for before: the file is
\* read and the contents are stored
TemplateContentsOther(c) ==
    /\ tr_call[c] = None
    /\ tr_requested < OtherTemplates
    /\ tr_requested' = tr_requested + 1
    /\ tr_cache' = CacheStore(tr_cache, OtherTemplate(tr_requested + 1))
    /\ UNCHANGED <<tr_call, tr_reads, tr_succeeded, tr_reread>>
    /\ UNCHANGED <<task_vars, enum_done, deployer, pipelines, faults, rp_vars, en_vars, cfg_vars, mg_vars, tg_vars, pl_vars, rr_vars>>

\* template_contents('default') finds the name cached and returns the
\* cached contents
TemplateContentsCached(c) ==
    /\ tr_call[c] = None
    /\ DefaultTemplate \in Range(tr_cache)
    /\ tr_cache' = CacheHit(tr_cache, DefaultTemplate)
    /\ UNCHANGED <<tr_requested, tr_call, tr_reads, tr_succeeded, tr_reread>>
    /\ UNCHANGED <<task_vars, enum_done, deployer, pipelines, faults, rp_vars, en_vars, cfg_vars, mg_vars, tg_vars, pl_vars, rr_vars>>

\* template_contents('default') does not find the name cached: the caller
\* opens and reads the template file
TemplateContentsRead(c) ==
    /\ tr_call[c] = None
    /\ DefaultTemplate \notin Range(tr_cache)
    /\ tr_call' = [tr_call EXCEPT ![c] = DefaultTemplate]
    /\ tr_reads' = tr_reads + 1
    /\ tr_reread' = (tr_reread \/ tr_succeeded)
    /\ UNCHANGED <<tr_cache, tr_requested, tr_succeeded>>
    /\ UNCHANGED <<task_vars, enum_done, deployer, pipelines, faults, rp_vars, en_vars, cfg_vars, mg_vars, tg_vars, pl_vars, rr_vars>>

\* the caller has read the file: the contents are stored and returned
TemplateContentsReturn(c) ==
    /\ tr_call[c] = DefaultTemplate
    /\ tr_cache' = CacheStore(tr_cache, DefaultTemplate)
    /\ tr_call' = [tr_call EXCEPT ![c] = None]
    /\ tr_succeeded' = TRUE
    /\ UNCHANGED <<tr_requested, tr_reads, tr_reread>>
    /\ UNCHANGED <<task_vars, enum_done, deployer, pipelines, faults, rp_vars, en_vars, cfg_vars, mg_vars, tg_vars, pl_vars, rr_vars>>

TemplatesNext ==
    \E c \in Callers :
        \/ TemplateContentsOther(c)
        \/ TemplateContentsCached(c)
        \/ TemplateContentsRead(c)
        \/ TemplateContentsReturn(c)

TemplatesStart == ReplicatorInit /\ EnumeratorsIdle /\ BranchCfgIdle /\ MergeIdle /\ TemplatesInit /\ TriageIdle /\ PoolIdle /\ FirstRun

TemplatesSpec == TemplatesStart /\ [][TemplatesNext]_vars

(***************************************************************************)
(* ProtecodeApi.add_triage.                                                *)
(***************************************************************************)
\* the members of TriageScope that add_triage tells apart
ACCOUNT_WIDE == "ACCOUNT_WIDE"
FILE_NAME == "FILE_NAME"
FILE_HASH == "FILE_HASH"
RESULT == "RESULT"
GROUP == "GROUP"

TriageScopes == {ACCOUNT_WIDE, FILE_NAME, FILE_HASH, RESULT, GROUP}

\* a triage of an uploaded product; scope() returns its scope
Triage(scope) ==
    [component |-> "openssl", version |-> "1.0.2", vuln |-> "CVE-1", scope |-> scope, reason |-> "OT", description |-> "patched"]

\* identifiers of products and groups; 0 is an identifier that is not None
Identifiers == {<<>>, <<0>>, <<7>>}

\* `if product_id:` / `if group_id:`: the argument is given and not 0
Given(id) == id # <<>> /\ id[1] # 0

\* util.none(x) raises unless x is None
none(x) == x = <<>>

\* util.not_none(x) raises if x is None
not_none(x) == x # <<>>

\* `scope = scope if scope else triage.scope()`
EffectiveScope(triage, scope) == IF scope # <<>> THEN scope[1] ELSE triage.scope

\* the checks of the arguments against the scope pass
ArgumentsAccepted(scope, product_id, group_id) ==
    IF scope = ACCOUNT_WIDE THEN none(product_id) /\ none(group_id)
    ELSE IF scope \in {FILE_NAME, FILE_HASH, RESULT} THEN not_none(product_id) /\ none(group_id)
    ELSE IF scope = GROUP THEN none(product_id) /\ not_none(group_id)
    ELSE FALSE

\* the dictionary add_triage sends: the data of the triage and the target
TriageDict(triage, product_id, group_id) ==
    [component |-> triage.component,
     version |-> triage.version,
     vulns |-> <<triage.vuln>>,
     scope |-> triage.scope,
     reason |-> triage.reason,
     description |-> triage.description,
     product_id |-> IF Given(product_id) THEN product_id ELSE <<>>,
     group_id |-> IF Given(group_id) THEN group_id ELSE <<>>]

\* ProtecodeApi.add_triage: it raises, or it puts one request
add_triage(triage, scope, product_id, group_id) ==
    IF ArgumentsAccepted(EffectiveScope(triage, scope), product_id, group_id)
    THEN [raised |-> FALSE, requests |-> << TriageDict(triage, product_id, group_id) >>]
    ELSE [raised |-> TRUE, requests |-> <<>>]

\* a triage and the arguments of the call
TriageInit ==
    /\ tg_triage \in {Triage(scope) : scope \in TriageScopes}
    /\ tg_scope \in {<<>>} \cup {<<scope>> : scope \in TriageScopes}
    /\ tg_product_id \in Identifiers
    /\ tg_group_id \in Identifiers
    /\ tg_outcome = <<>>

AddTriage ==
    /\ tg_outcome = <<>>
    /\ tg_outcome' = << add_triage(tg_triage, tg_scope, tg_product_id, tg_group_id) >>
    /\ UNCHANGED <<tg_triage, tg_scope, tg_product_id, tg_group_id>>
    /\ UNCHANGED <<task_vars, enum_done, deployer, pipelines, faults, rp_vars, en_vars, cfg_vars, mg_vars, tr_vars, pl_vars, rr_vars>>

TriageNext == AddTriage

TriageStart == ReplicatorInit /\ EnumeratorsIdle /\ BranchCfgIdle /\ MergeIdle /\ TemplatesIdle /\ TriageInit /\ PoolIdle /\ FirstRun

TriageSpec == TriageStart /\ [][TriageNext]_vars

(***************************************************************************)
(* The pool of workers of PipelineReplicator._replicate: the tasks that    *)
(* executor.map submits, some of which hang in a call that never returns.  *)
(***************************************************************************)
\* ThreadPoolExecutor(max_workers=8)
max_workers == 8

PoolTasks == 1..Len(pl_task)

\* the workers that hold a task: running it, or stalled in it for good
BusyWorkers == Cardinality({t \in PoolTasks : pl_task[t] \in {"running", "stuck"}})

\* a pool that runs one task at a time
WorkerAvailable_Serial == BusyWorkers < 1

\* a worker is idle, or the pool may still start one
WorkerAvailable == BusyWorkers < max_workers

\* executor.map submits the task of the next enumerated descriptor
SubmitTask ==
    /\ Len(pl_task) < MaxTasks
    /\ pl_task' = Append(pl_task, "queued")
    /\ UNCHANGED <<task_vars, enum_done, deployer, pipelines, faults, rp_vars, en_vars, cfg_vars, mg_vars, tr_vars, tg_vars, rr_vars>>

\* a worker takes the task that waits longest in the work queue
StartTask(t) ==
    /\ pl_task[t] = "queued"
    /\ \A u \in 1..(t - 1) : pl_task[u] # "queued"
    /\ WorkerAvailable
    /\ pl_task' = [pl_task EXCEPT ![t] = "running"]
    /\ UNCHANGED <<task_vars, enum_done, deployer, pipelines, faults, rp_vars, en_vars, cfg_vars, mg_vars, tr_vars, tg_vars, rr_vars>>

\* _process_definition_descriptor returns and the worker is free again
TaskReturns(t) ==
    /\ pl_task[t] = "running"
    /\ pl_task' = [pl_task EXCEPT ![t] = "done"]
    /\ UNCHANGED <<task_vars, enum_done, deployer, pipelines, faults, rp_vars, en_vars, cfg_vars, mg_vars, tr_vars, tg_vars, rr_vars>>

\* a blocking call inside the task never returns: its worker is lost
TaskHangs(t) ==
    /\ pl_task[t] = "running"
    /\ pl_task' = [pl_task EXCEPT ![t] = "stuck"]
    /\ UNCHANGED <<task_vars, enum_done, deployer, pipelines, faults, rp_vars, en_vars, cfg_vars, mg_vars, tr_vars, tg_vars, rr_vars>>

StartNextTask == \E t \in PoolTasks : StartTask(t)

SomeTaskReturns == \E t \in PoolTasks : TaskReturns(t)

PoolNext ==
    \/ SubmitTask
    \/ StartNextTask
    \/ SomeTaskReturns
    \/ \E t \in PoolTasks : TaskHangs(t)

PoolStart == ReplicatorInit /\ EnumeratorsIdle /\ BranchCfgIdle /\ MergeIdle /\ ExtIdle

\* a free worker takes a waiting task, and a task that does not hang returns
PoolSpec == PoolStart /\ [][PoolNext]_vars /\ WF_vars(StartNextTask) /\ WF_vars(SomeTaskReturns)

(***************************************************************************)
(* A run that stopped within a sweep is followed by another run over the   *)
(* same definitions: the CI server keeps what the stopped run left behind. *)
(***************************************************************************)
\* replicate() is called again after process_results was left within the
\* sweep of the target rp_api; the enumerators yield the same descriptors.
\* One following run is modelled.
ReplicateAgain ==
    /\ rp_pc = "raised"
    /\ FirstRun
    /\ rr_stopped' = Append(rr_stopped, [target |-> rp_api, pipelines |-> pipelines[rp_api]])
    /\ descs' = enumerated
    /\ enum_done' = TRUE
    /\ task' = [i \in 1..Len(enumerated) |-> "submitted"]
    /\ render_results' = [i \in 1..Len(enumerated) |-> NoRenderResult]
    /\ deploy_results' = [i \in 1..Len(enumerated) |-> NoDeployResult]
    /\ render_calls' = [i \in 1..Len(enumerated) |-> 0]
    /\ deploy_calls' = [i \in 1..Len(enumerated) |-> 0]
    /\ server_calls' = [i \in 1..Len(enumerated) |-> <<>>]
    /\ set_responses' = [i \in 1..Len(enumerated) |-> None]
    /\ deploy_raised' = [i \in 1..Len(enumerated) |-> None]
    /\ rp_pc' = "replicate"
    /\ results' = <<>>
    /\ rp_bucket' = 0
    /\ rp_log' = <<>>
    /\ rp_failed' = <<>>
    /\ rp_next' = 0
    /\ mails' = <<>>
    /\ all_notifications_succeeded' = TRUE
    /\ rp_api' = <<None, None>>
    /\ rp_return' = <<>>
    /\ UNCHANGED <<enumerated, completed, deployer, pipelines, faults, en_vars, cfg_vars, mg_vars, tr_vars, tg_vars, pl_vars>>

RerunSpec == Init /\ [][Next \/ ReplicateAgain]_vars

ReplicateNext ==
    \/ Enumerate
    \/ EnumerationDone
    \/ \E i \in 1..Len(descs) : TaskCompletes(i)
    \/ CallProcessResults
    \/ ReplicateRaises

ReplicateSpec == Init /\ [][ReplicateNext]_vars

(***************************************************************************)
(* Properties.                                                             *)
(***************************************************************************)
Indices == 1..Len(descs)

\* C1: a descriptor with a discovery exception is never rendered nor
\* deployed, and its task returns a DeployResult with status SKIPPED that
\* carries the exception as error detail.
C1_DiscoveryErrorIsSkipped ==
    \A i \in Indices :
        descs[i].exception # None =>
            /\ render_calls[i] = 0
            /\ deploy_calls[i] = 0
            /\ server_calls[i] = <<>>
            /\ task[i] # "raised"
            /\ task[i] = "done" =>
                /\ deploy_results[i].deploy_status = SKIPPED
                /\ deploy_results[i].error_details = descs[i].exception

C1_Witness ==
    \E i \in Indices : descs[i].exception # None /\ task[i] = "done"

\* the merged definition of a descriptor the renderer was called for
EffectiveDefinition(i) == MergeAll(descs[i].pipeline_definition, descs[i].override_definitions)

NonEmptyMapping(m, key) == key \in DOMAIN m /\ IsMap(m[key]) /\ DOMAIN m[key].v # {}

Ambiguous(i) ==
    /\ NonEmptyMapping(EffectiveDefinition(i), "jobs")
    /\ NonEmptyMapping(EffectiveDefinition(i), "variants")

C3_FailedRenderIsSkipped ==
    \A i \in Indices :
        (render_calls[i] > 0 /\ render_results[i].render_status = RenderFAILED) =>
            /\ task[i] = "done"
            /\ deploy_results[i].deploy_status = SKIPPED
            /\ deploy_results[i].error_details = render_results[i].error_details
            /\ deploy_calls[i] = 0
            /\ server_calls[i] = <<>>

C3_Witness ==
    \E i \in Indices :
        /\ render_calls[i] > 0
        /\ render_results[i].render_status = RenderFAILED
        /\ render_results[i].error_details # None
        /\ task[i] = "done"

(***************************************************************************)
(* The sweeps of process_results, read from the log of its calls.          *)
(***************************************************************************)
LogIndices == 1..Len(rp_log)

\* the calls of an operation on a target that were made and did not raise
Done(target, op) == {k \in LogIndices : rp_log[k].target = target /\ rp_log[k].op = op /\ rp_log[k].ok}

\* the calls of an operation on a target, the raising one included
Made(target, op) == {k \in LogIndices : rp_log[k].target = target /\ rp_log[k].op = op}

\* the results of the run routed to a target
ResultsOf(target) == {i \in Range(results) : concourse_target(descs[i]) = target}

\* the pipelines the target knew when its sweep listed them first
KnownAtSweep(target) ==
    UNION {Range(rp_log[k].arg) : k \in {j \in Done(target, "pipelines") : j > 1 /\ rp_log[j - 1].op = "from_cfg"}}

DeletedFrom(target) == {rp_log[k].arg[1] : k \in Done(target, "delete_pipeline")}

\* the sweep of a target has gone past its deletions
DeletionsFinished(target) ==
    \E k \in LogIndices :
        /\ rp_log[k].target = target
        /\ rp_log[k].op \in {"unpause_pipeline", "order_pipelines"}
           \/ (rp_log[k].op = "pipelines" /\ k > 1 /\ rp_log[k - 1].op # "from_cfg")

\* C4: for each target bucket the pipelines process_results deletes are
\* exactly the pipelines the target knows minus the pipeline names of this
\* run's results for the target: no other pipeline is ever deleted, and
\* once the deletions are finished every member of that set is deleted,
\* each by one call.
C4_RemovesExactlyTheDifference ==
    \A target \in Targets :
        LET names == {descs[i].pipeline_name : i \in ResultsOf(target)}
            to_remove == KnownAtSweep(target) \ names
        IN  /\ \A k \in Made(target, "delete_pipeline") : rp_log[k].arg[1] \in to_remove
            /\ DeletionsFinished(target) =>
                /\ DeletedFrom(target) = to_remove
                /\ Cardinality(Made(target, "delete_pipeline")) = Cardinality(to_remove)
                /\ Range(pipelines[target]) \cap to_remove = {}

\* a target knowing three pipelines of which the run named one: the two
\* others were deleted, and a pipeline of a skipped result was kept
C4_Witness ==
    /\ rp_pc = "returned"
    /\ \E target \in Targets :
        /\ Cardinality(KnownAtSweep(target)) = 3
        /\ Cardinality(DeletedFrom(target)) = 2
        /\ DeletedFrom(target) # KnownAtSweep(target)
    /\ \E target \in Targets :
        \E i \in ResultsOf(target) :
            /\ deploy_results[i].deploy_status = SKIPPED
            /\ descs[i].pipeline_name \in KnownAtSweep(target)
            /\ descs[i].pipeline_name \in Range(pipelines[target])

\* the tasks for which deploy was called and has returned
Deployed == {i \in Indices : deploy_calls[i] > 0 /\ task[i] = "done"}

HasBit(status, bit) == BitAnd(status, bit) # 0

\* C5 as stated: whenever set_pipeline reports CREATED deploy returns
\* SUCCEEDED|CREATED, whenever it reports UPDATED exactly SUCCEEDED.
C5_StatusFollowsResponse ==
    \A i \in Deployed :
        /\ set_responses[i] = SetCREATED => deploy_results[i].deploy_status = SUCCEEDED + CREATED
        /\ set_responses[i] = SetUPDATED => deploy_results[i].deploy_status = SUCCEEDED

\* C5, amended: when no call of deploy's sequence raised, the status is
\* SUCCEEDED|CREATED if set_pipeline reported CREATED and exactly SUCCEEDED
\* if it reported UPDATED; when a call raised it is FAILED; and no result
\* of the run combines the CREATED bit with FAILED or SKIPPED.
C5_StatusFollowsResponseUnlessRaised ==
    /\ \A i \in Deployed :
        LET status == deploy_results[i].deploy_status
            raised == deploy_results[i].error_details # None
        IN  /\ (~raised /\ set_responses[i] = SetCREATED) => status = SUCCEEDED + CREATED
            /\ (~raised /\ set_responses[i] = SetUPDATED) => status = SUCCEEDED
            /\ ~raised => set_responses[i] \in {SetCREATED, SetUPDATED}
            /\ raised => status = FAILED
    /\ \A i \in Indices :
        (task[i] = "done" /\ HasBit(deploy_results[i].deploy_status, CREATED)) =>
            /\ HasBit(deploy_results[i].deploy_status, SUCCEEDED)
            /\ ~HasBit(deploy_results[i].deploy_status, FAILED)
            /\ ~HasBit(deploy_results[i].deploy_status, SKIPPED)
            /\ set_responses[i] = SetCREATED

C5_Witness ==
    /\ \E i \in Deployed : set_responses[i] = SetCREATED /\ deploy_results[i].deploy_status = SUCCEEDED + CREATED
    /\ \E i \in Deployed : set_responses[i] = SetUPDATED /\ deploy_results[i].deploy_status = SUCCEEDED

\* process_results has finished the sweeps of all buckets
SweepsFinished == rp_pc \in {"evaluate", "notify", "returned"}

\* the pipelines of a target whose DeployResult has the CREATED bit
CreatedOn(target) ==
    {descs[i].pipeline_name : i \in {j \in ResultsOf(target) : HasBit(deploy_results[j].deploy_status, CREATED)}}

\* the <<pipeline, resource>> pairs a check must be triggered for: the
\* resources with a webhook token of the created pipelines
WebhookPairs(target) ==
    UNION {{<<name, PipelineResources(name)[k].name>> : k \in {j \in 1..Len(PipelineResources(name)) : PipelineResources(name)[j].has_webhook_token}} : name \in CreatedOn(target)}

\* C6: the result processor unpauses a pipeline and triggers resource
\* checks for it only if its DeployResult in the bucket has the CREATED
\* bit, and only for resources with a webhook token; once the sweeps are
\* finished every such pipeline was unpaused and each of its resources
\* with a webhook token was checked, each by one call.
C6_OnlyCreatedPipelinesAreInitialised ==
    \A target \in Targets :
        /\ \A k \in Made(target, "unpause_pipeline") : rp_log[k].arg[1] \in CreatedOn(target)
        /\ \A k \in Made(target, "pipeline_resources") : rp_log[k].arg[1] \in CreatedOn(target)
        /\ \A k \in Made(target, "trigger_resource_check") : <<rp_log[k].arg[1], rp_log[k].arg[2]>> \in WebhookPairs(target)
        /\ SweepsFinished =>
            /\ {rp_log[k].arg[1] : k \in Done(target, "unpause_pipeline")} = CreatedOn(target)
            /\ Cardinality(Made(target, "unpause_pipeline")) = Cardinality(CreatedOn(target))
            /\ {<<rp_log[k].arg[1], rp_log[k].arg[2]>> : k \in Done(target, "trigger_resource_check")} = WebhookPairs(target)
            /\ Cardinality(Made(target, "trigger_resource_check")) = Cardinality(WebhookPairs(target))

\* a bucket with a created and an updated pipeline: only the created one
\* was unpaused and checked, on its two resources with a webhook token
C6_Witness ==
    /\ SweepsFinished
    /\ \E target \in Targets :
        /\ CreatedOn(target) # {}
        /\ \E i \in ResultsOf(target) : deploy_results[i].deploy_status = SUCCEEDED
        /\ Cardinality(Done(target, "trigger_resource_check")) = 2
        /\ Cardinality(Done(target, "unpause_pipeline")) = 1

\* the results lacking the SUCCEEDED bit
FailedResults == {i \in Range(results) : ~HasBit(deploy_results[i].deploy_status, SUCCEEDED)}

\* C7: process_results returns true iff no result lacks the SUCCEEDED bit
\* or every notification attempted completed without raising.
C7_ReturnsFalseOnlyOnNotificationFailure ==
    rp_pc = "returned" =>
        rp_return = << (FailedResults = {} \/ \A k \in 1..Len(mails) : mails[k].sent) >>

\* a failed result whose owners were notified: process_results returns true
C7_Witness ==
    /\ rp_pc = "returned"
    /\ FailedResults # {}
    /\ rp_return = <<TRUE>>

\* the failed results in the order of the result list
RECURSIVE FailedInOrder(_)
FailedInOrder(res) ==
    IF res = <<>> THEN <<>>
    ELSE IF res[1] \in FailedResults THEN <<res[1]>> \o FailedInOrder(Tail(res))
    ELSE FailedInOrder(Tail(res))

\* C8: owner notification is attempted exactly once for every result
\* lacking the SUCCEEDED bit and for no other, whether or not an earlier
\* notification raised.
C8_EveryFailedResultIsNotifiedOnce ==
    /\ rp_pc = "returned" => [k \in 1..Len(mails) |-> mails[k].result] = FailedInOrder(results)
    /\ \A k \in 1..Len(mails) :
        /\ mails[k].result \in FailedResults
        /\ \A j \in 1..Len(mails) : mails[j].result = mails[k].result => j = k

\* the first notification raised and the second was still attempted
C8_Witness ==
    /\ rp_pc = "returned"
    /\ Len(mails) = 2
    /\ ~mails[1].sent
    /\ mails[2].sent

\* C9: when a call of a target's sweep has raised, the other targets are
\* still swept and the owners of the failed results are still notified, so
\* that process_results ends with every bucket swept and every failed
\* result notified.
C9_SweepFailureIsLocal ==
    rp_pc \in {"raised", "returned"} =>
        /\ \A i \in Range(results) : Made(concourse_target(descs[i]), "from_cfg") # {}
        /\ \A i \in FailedResults : \E k \in 1..Len(mails) : mails[k].result = i

\* the position of an operation in the sweep of a target
PhaseOf(op) ==
    IF op = "delete_pipeline" THEN 1
    ELSE IF op \in {"unpause_pipeline", "pipeline_resources", "trigger_resource_check"} THEN 2
    ELSE IF op = "order_pipelines" THEN 3
    ELSE 0

Ascending(s) == \A k \in 1..(Len(s) - 1) : StrLess(s[k], s[k + 1])

\* C10: in the sweep of a target the deletions come first, then the
\* initialisation of the new pipelines, then one order_pipelines call,
\* whose argument is the target's pipeline list after the deletions (the
\* pipelines known before minus the deleted ones), in ascending order.
C10_OrderAfterDeleteAndInitialise ==
    \A target \in Targets :
        /\ \A j, k \in LogIndices :
            (/\ j < k
             /\ rp_log[j].target = target
             /\ rp_log[k].target = target
             /\ PhaseOf(rp_log[j].op) > 0
             /\ PhaseOf(rp_log[k].op) > 0) => PhaseOf(rp_log[j].op) <= PhaseOf(rp_log[k].op)
        /\ Cardinality(Made(target, "order_pipelines")) <= 1
        /\ (SweepsFinished /\ ResultsOf(target) # {}) => Cardinality(Done(target, "order_pipelines")) = 1
        /\ \A k \in Made(target, "order_pipelines") :
            /\ Ascending(rp_log[k].arg)
            /\ Range(rp_log[k].arg) = KnownAtSweep(target) \ DeletedFrom(target)
            /\ Range(rp_log[k].arg) \cap DeletedFrom(target) = {}
            /\ Len(rp_log[k].arg) = Cardinality(Range(rp_log[k].arg))
            /\ rp_log[k].ok => pipelines[target] = rp_log[k].arg

\* a sweep that deleted, initialised a new pipeline and then put a list
\* of two pipelines in order, which the server held in another order
C10_Witness ==
    \E target \in Targets :
        \E k \in Done(target, "order_pipelines") :
            /\ Len(rp_log[k].arg) >= 2
            /\ rp_log[k - 1].arg # rp_log[k].arg
            /\ Done(target, "delete_pipeline") # {}
            /\ Done(target, "unpause_pipeline") # {}

(***************************************************************************)
(* Properties of the enumerators.                                          *)
(***************************************************************************)
Repos == 1..Len(en_repos)

\* the scan of repository r was consumed to its end without raising
ScanOver(r) == r < en_repo \/ en_pc = "done"

\* the <<branch, cfg_entry>> pairs of repository r
PairsOf(r) == determine_repository_branches(en_repos[r]).pairs

\* the file .ci/pipeline_definitions of the k-th pair of repository r
FileOf(r, k) == en_repos[r].files[PairsOf(r)[k][1]]

\* what the scan of repository r yielded for the branch of its k-th pair
BranchDescriptors(r, k) ==
    SelectSeq(en_scans[r], LAMBDA d : d.main_repo.branch = PairsOf(r)[k][1])

\* C11: once the scan of a repository is over, a branch whose definitions
\* file is unparsable has exactly one Descriptor, an error Descriptor, and
\* every other branch whose file parses has the Descriptors of its
\* definitions.
C11_UnparsableBranchIsLocal ==
    \A r \in Repos :
        ScanOver(r) =>
            \A k \in 1..Len(PairsOf(r)) :
                FileOf(r, k).state = "unparsable" =>
                    /\ Len(BranchDescriptors(r, k)) = 1
                    /\ BranchDescriptors(r, k)[1].exception # None
                    /\ \A j \in 1..Len(PairsOf(r)) :
                        (FileOf(r, j).state = "ok" /\ FileOf(r, j).wrap_fails_at = 0) =>
                            \A n \in Range(FileOf(r, j).names) :
                                \E i \in 1..Len(BranchDescriptors(r, j)) :
                                    BranchDescriptors(r, j)[i].pipeline_name = n

\* the scan of repository r has ended, by exhaustion, `return` or an
\* exception
ScanEnded(r) == ScanOver(r) \/ (en_pc = "raised" /\ en_repo = r)

RECURSIVE ScanOfPairs(_, _)
\* what a scan of the repository yields that is handed the given pairs
ScanOfPairs(repository, pairs) ==
    IF pairs = <<>> THEN <<>>
    ELSE LET scanned == ScanBranchPair(repository, Head(pairs))
         IN  IF scanned.next = "continue"
             THEN scanned.yields \o ScanOfPairs(repository, Tail(pairs))
             ELSE scanned.yields

\* the pairs of repository r on whose branch the definitions file exists
PairsWithFile(r) ==
    SelectSeq(PairsOf(r), LAMBDA pair : en_repos[r].files[pair[1]].state # "absent")

\* C12: a branch without .ci/pipeline_definitions has no Descriptor at all
\* in what the scan yields, and a scan that has ended has yielded exactly
\* what it yields for the branches that have the file, as if the branch
\* without the file were not there.
C12_AbsentDefinitionsAreSkipped ==
    \A r \in Repos :
        /\ \A k \in 1..Len(PairsOf(r)) :
            FileOf(r, k).state = "absent" => BranchDescriptors(r, k) = <<>>
        /\ ScanEnded(r) => en_scans[r] = ScanOfPairs(en_repos[r], PairsWithFile(r))

\* a scan is over that passed a branch without the file and then yielded
\* the Descriptors of the next branch
C12_Witness ==
    \E r \in Repos :
        /\ ScanOver(r)
        /\ \E k \in 1..(Len(PairsOf(r)) - 1) :
            /\ FileOf(r, k).state = "absent"
            /\ FileOf(r, k + 1).state = "ok"
            /\ Len(BranchDescriptors(r, k + 1)) >= 2

\* C13: no enumerator raises while it is consumed: a failure of the
\* discovery never leaves the generator as an exception.
C13_EnumeratorsNeverRaise == en_pc # "raised"

\* C14: when the single-file enumerator has been consumed and its sequence
\* holds an error Descriptor named <invalid YAML>, that Descriptor carries
\* the exception and is the only Descriptor of the sequence.
C14_InvalidYamlIsTheOnlyDescriptor ==
    (en_kind = "file" /\ en_pc = "done") =>
        \A i \in 1..Len(en_stream) :
            en_stream[i].pipeline_name = "<invalid YAML>" =>
                /\ en_stream[i].exception # None
                /\ Len(en_stream) = 1

\* the Descriptors of repository r in the flattened stream, in order
StreamOf(r) ==
    SelectSeq(en_stream, LAMBDA d : d.main_repo.path = OrgName \o "/" \o en_repos[r].name)

\* s is a prefix of t
IsPrefix(s, t) == Len(s) <= Len(t) /\ s = SubSeq(t, 1, Len(s))

\* C19: in the stream of the organisation enumerator the Descriptors of a
\* repository are in the order in which the scan of that repository
\* yields them, whatever the order in which the tasks of the pool ran.
C19_RepositoryOrderIsPreserved ==
    en_kind = "organisation" =>
        \A r \in Repos :
            /\ StreamOf(r) = en_scans[r]
            /\ IsPrefix(StreamOf(r), ScanOfPairs(en_repos[r], PairsOf(r)))
            /\ ScanEnded(r) => StreamOf(r) = ScanOfPairs(en_repos[r], PairsOf(r))

\* the scans of two repositories, each over two branches, were flattened
C19_Witness ==
    /\ en_kind = "organisation"
    /\ en_pc = "done"
    /\ Len(en_repos) >= 2
    /\ \A r \in Repos : Len(StreamOf(r)) >= 3

(***************************************************************************)
(* Properties of the preprocessor, of the merge and of the collection of   *)
(* the results.                                                            *)
(***************************************************************************)
\* the override layer {base_definition: {repo: main_repo}}
MainRepoLayer(main_repo) ==
    "base_definition" :> Map("repo" :>
        Map(("path" :> Scalar(main_repo.path)) @@ ("branch" :> Scalar(main_repo.branch)) @@ ("hostname" :> Scalar(main_repo.hostname))))

\* C15: a wrapped descriptor (name n, branch b) whose task has run the
\* preprocessor is named "n-b" and has two override layers, the per-name
\* layer it was enumerated with and then {base_definition: {repo:
\* main_repo}}; its other fields are as enumerated.
C15_PreprocessorQualifiesAndInjects ==
    \A i \in Indices :
        (task[i] # "submitted" /\ enumerated[i].exception = None) =>
            /\ descs[i].pipeline_name = enumerated[i].pipeline_name \o "-" \o enumerated[i].main_repo.branch
            /\ Len(descs[i].override_definitions) = 2
            /\ descs[i].override_definitions[1] = enumerated[i].override_definitions[1]
            /\ descs[i].override_definitions[2] = MainRepoLayer(enumerated[i].main_repo)
            /\ descs[i].pipeline_definition = enumerated[i].pipeline_definition
            /\ descs[i].main_repo = enumerated[i].main_repo
            /\ descs[i].concourse_target_cfg = enumerated[i].concourse_target_cfg
            /\ descs[i].concourse_target_team = enumerated[i].concourse_target_team
            /\ descs[i].exception = enumerated[i].exception

\* a descriptor enumerated as "p" with a non-empty per-name override layer
\* has been preprocessed
C15_Witness ==
    \E i \in Indices :
        /\ task[i] = "done"
        /\ enumerated[i].pipeline_name = "p"
        /\ Len(enumerated[i].override_definitions) = 1
        /\ enumerated[i].override_definitions[1] # EmptyMap
        /\ descs[i].pipeline_name = "p-m"

(***************************************************************************)
(* Properties of cfg_entry_for_branch.                                     *)
(***************************************************************************)
\* the positions of the entries of the collection that match the branch
MatchingPositions ==
    { k \in 1..Len(cfg_collection) :
        \E j \in 1..Len(cfg_collection[k].raw["branches"].v) :
            fullmatch(cfg_collection[k].raw["branches"].v[j], cfg_branch) }

\* C16: cfg_entry_for_branch returns none when no entry of the collection
\* has a regular expression that fully matches the branch name, and a
\* merged entry when at least one has.
C16_NoneIffNoEntryMatches ==
    cfg_result # <<>> =>
        /\ MatchingPositions = {} => cfg_result[1] = <<>>
        /\ MatchingPositions # {} => (Len(cfg_result[1]) = 1 /\ cfg_result[1][1].name = "merged")

\* a collection with entries none of which matches was resolved
C16_Witness ==
    /\ cfg_result = << <<>> >>
    /\ Len(cfg_collection) >= 2
    /\ MatchingPositions = {}

\* the entry at position k has an explicit index
ExplicitIndex(k) == "index" \in DOMAIN cfg_collection[k].raw

\* an order of the matching positions: ascending by explicit index, the
\* entries without an explicit index in encounter order
AscendingIndexOrder(order) ==
    \A a, b \in 1..Len(order) :
        a < b =>
            /\ (ExplicitIndex(order[a]) /\ ExplicitIndex(order[b])) =>
                    cfg_collection[order[a]].raw["index"].v <= cfg_collection[order[b]].raw["index"].v
            /\ (~ExplicitIndex(order[a]) /\ ~ExplicitIndex(order[b])) => order[a] < order[b]

\* C17: with two or more matching entries the result is the deep-merge of
\* the matching entries in ascending order of their index (0 included),
\* the entries without an index keeping their encounter order.
C17_MergedInAscendingIndexOrder ==
    (cfg_result # <<>> /\ Cardinality(MatchingPositions) >= 2) =>
        \E order \in Orderings(MatchingPositions) :
            /\ AscendingIndexOrder(order)
            /\ cfg_result[1][1].raw = MergeEntries(EmptyMap, [k \in 1..Len(order) |-> cfg_collection[order[k]]])

(***************************************************************************)
(* Properties of the merge.                                                *)
(***************************************************************************)
\* the values the layers have for a key, in list order
ValuesOf(layers, key) ==
    LET defining == SelectSeq(layers, LAMBDA layer : key \in DOMAIN layer)
    IN  [i \in 1..Len(defining) |-> defining[i][key]]

\* the mappings at the end of a list of values, behind its last value
\* that is not a mapping
RECURSIVE TrailingMaps(_)
TrailingMaps(values) ==
    IF values = <<>> \/ ~IsMap(values[Len(values)]) THEN <<>>
    ELSE Append(TrailingMaps(SubSeq(values, 1, Len(values) - 1)), values[Len(values)].v)

\* the layers merged key by key: the value of a key is the value of the
\* last layer that has the key, unless that is a mapping: then it is the
\* key-wise merge of the mappings the layers have for the key since the
\* last value that is not a mapping
RECURSIVE KeyWise(_)
KeyWise(layers) ==
    [key \in UNION {DOMAIN layers[i] : i \in 1..Len(layers)} |->
        LET values == ValuesOf(layers, key)
        IN  IF ~IsMap(values[Len(values)]) THEN values[Len(values)]
            ELSE Map(KeyWise(TrailingMaps(values)))]

\* C18: the effective definition is pipeline_definition merged with the
\* override layers in list order: on a conflicting key the later layer
\* wins, nested mappings merge key-wise; {x:{a:1}}, {x:{b:2}}, {x:{a:3}}
\* give {x:{a:3,b:2}}.
C18_EffectiveDefinitionIsLeftFold ==
    mg_effective # <<>> =>
        /\ mg_effective[1] = KeyWise(<<mg_definition>> \o mg_overrides)
        /\ (/\ mg_definition = ("x" :> Map("a" :> Scalar("1")))
            /\ mg_overrides = << "x" :> Map("b" :> Scalar("2")), "x" :> Map("a" :> Scalar("3")) >>)
            => mg_effective[1] = ("x" :> Map(("a" :> Scalar("3")) @@ ("b" :> Scalar("2"))))

\* the three layers of the example have been merged
C18_Witness ==
    /\ mg_effective # <<>>
    /\ mg_definition = ("x" :> Map("a" :> Scalar("1")))
    /\ mg_overrides = << "x" :> Map("b" :> Scalar("2")), "x" :> Map("a" :> Scalar("3")) >>

\* replicate() has collected the results and called process_results
Collected == rp_pc \notin {"replicate", "aborted"}

\* C20: the collected results are in the order in which their tasks
\* ended: a task that ends earlier has its result earlier in the list.
C20_ResultsInCompletionOrder == Collected => results = completed

\* C20 as amended: the collected results are in the order in which their
\* tasks were submitted, that of the enumerated descriptors, whatever the
\* order in which the tasks ended.
C20_ResultsInSubmissionOrder ==
    Collected =>
        /\ Len(results) = Len(enumerated)
        /\ \A k \in 1..Len(results) : results[k] = k /\ task[results[k]] = "done"

\* results were collected of tasks that ended in another order than they
\* were submitted in
C20_Witness ==
    /\ Collected
    /\ Len(results) >= 2
    /\ completed # results
    /\ Range(completed) = Range(results)

(***************************************************************************)
(* Properties of the results of a run.                                     *)
(***************************************************************************)
\* the orchestrator built the result of task i itself
ShortCircuited(i) ==
    \/ HasDiscoveryError(enumerated[i])
    \/ (render_calls[i] = 1 /\ render_results[i].render_status = RenderFAILED)

\* number of places of the collected list that hold the result of task i
Occurrences(i) == Cardinality({k \in DOMAIN results : results[k] = i})

\* C21: render and deploy are called at most once per enumerated
\* descriptor; a task that has returned has exactly one DeployResult, built
\* by the deployer or by the orchestrator's short-circuit (then SKIPPED),
\* never both; and the list handed to process_results holds the result of
\* every enumerated descriptor exactly once, so it is as long as the list
\* of enumerated descriptors.
C21_OneResultPerDescriptor ==
    /\ Len(task) = Len(enumerated)
    /\ \A i \in Indices :
        /\ render_calls[i] <= 1
        /\ deploy_calls[i] <= 1
        /\ task[i] = "submitted" => deploy_results[i] = NoDeployResult
        /\ task[i] = "done" =>
            /\ deploy_results[i] # NoDeployResult
            /\ (deploy_calls[i] = 1) # ShortCircuited(i)
            /\ ShortCircuited(i) => deploy_results[i].deploy_status = SKIPPED
            /\ deploy_calls[i] = 1 => deploy_results[i].deploy_status # SKIPPED
    /\ Collected =>
        /\ Len(results) = Len(enumerated)
        /\ \A i \in 1..Len(enumerated) : Occurrences(i) = 1 /\ task[i] = "done"

\* process_results was called with the result of a deployed descriptor and
\* the result of a short-circuited one
C21_Witness ==
    /\ Collected
    /\ Len(enumerated) = 2
    /\ \E i, j \in Indices :
        /\ deploy_calls[i] = 1
        /\ ShortCircuited(j)
        /\ Occurrences(i) = 1
        /\ Occurrences(j) = 1

\* render was called for descriptor i
RenderCalled(i) == render_calls[i] > 0

\* error details produced by traceback.format_exc()
IsTrace(details) ==
    /\ details # None
    /\ Len(details) > Len(format_exc(""))
    /\ SubSeq(details, 1, Len(format_exc(""))) = format_exc("")

\* render returned a RenderResult for descriptor i: SUCCEEDED with the
\* rendered pipeline, or FAILED with a formatted trace
ReturnedRenderResult(i) ==
    /\ ~render_results[i].exit
    /\ render_results[i].render_status \in {RenderSUCCEEDED, RenderFAILED}
    /\ render_results[i].render_status = RenderSUCCEEDED =>
        /\ descs[i].pipeline # None
        /\ render_results[i].error_details = None
    /\ render_results[i].render_status = RenderFAILED =>
        /\ descs[i].pipeline = None
        /\ IsTrace(render_results[i].error_details)

DeploySteps == {"from_cfg", "set_pipeline", "unpause_pipeline", "expose_pipeline", "response"}

\* the steps of deploy that come after a successful set_pipeline
AfterSetPipeline == {"unpause_pipeline", "expose_pipeline", "response"}

\* C23: when a step of deploy raised (client creation, set_pipeline,
\* unpause, expose, interpretation of the response), deploy returns FAILED
\* with the trace as error detail; deploy makes no call other than those of
\* its sequence, up to the one that raised, so nothing is undone: a
\* pipeline that was set before the failure is still on the target.
C23_DeployFailureIsReportedNotUndone ==
    \A i \in Deployed :
        LET d == descs[i]
            plan == DeployPlan(d, deployer)
        IN  /\ deploy_raised[i] # None =>
                /\ deploy_raised[i] \in DeploySteps
                /\ deploy_results[i].deploy_status = FAILED
                /\ IsTrace(deploy_results[i].error_details)
            /\ deploy_raised[i] = None => deploy_results[i].error_details = None
            /\ Len(server_calls[i]) <= Len(plan)
            /\ server_calls[i] = SubSeq(plan, 1, Len(server_calls[i]))
            /\ deploy_raised[i] \in Range(plan) => server_calls[i][Len(server_calls[i])] = deploy_raised[i]
            /\ deploy_raised[i] \in AfterSetPipeline => d.pipeline_name \in Range(pipelines[concourse_target(d)])

\* deploy created a pipeline, a later step raised, and the result is FAILED
\* while the pipeline is on the target
C23_Witness ==
    \E i \in Deployed :
        /\ deploy_raised[i] \in AfterSetPipeline
        /\ set_responses[i] = SetCREATED
        /\ deploy_results[i].deploy_status = FAILED
        /\ descs[i].pipeline_name \in Range(pipelines[concourse_target(descs[i])])

(***************************************************************************)
(* Properties of the template retriever.                                   *)
(***************************************************************************)
\* C24: the cache of template_contents is never invalidated: once a call
\* for the default template has returned, no later call for it reads the
\* template file again, however many other names were asked for in between.
C24_MemoizedForProcessLifetime == ~tr_reread

\* the keys of the buckets that hold the result of task i
BucketsOf(i) == {key \in Range(TargetKeys(results)) : i \in Bucket(results, key)}

\* C25: preprocessing, rendering and deploying leave the target of a
\* descriptor as it was enumerated; descriptors of the same target have the
\* same key; and process_results puts every result into exactly one
\* bucket, that of the key of its descriptor, so that results of equal key
\* share a bucket.
C25_OneBucketPerDescriptor ==
    /\ \A i \in Indices :
        /\ concourse_target(descs[i]) = concourse_target(enumerated[i])
        /\ concourse_target_key(descs[i]) = concourse_target_key(enumerated[i])
    /\ \A i, j \in Indices :
        concourse_target(descs[i]) = concourse_target(descs[j])
            => concourse_target_key(descs[i]) = concourse_target_key(descs[j])
    /\ Collected =>
        /\ \A i \in Range(results) : BucketsOf(i) = {concourse_target_key(enumerated[i])}
        /\ \A i, j \in Range(results) :
            concourse_target_key(descs[i]) = concourse_target_key(descs[j]) => BucketsOf(i) = BucketsOf(j)

\* process_results was called with the results of two descriptors of
\* different targets, one of them preprocessed, rendered and deployed
C25_Witness ==
    /\ Collected
    /\ \E i, j \in Range(results) :
        /\ concourse_target_key(descs[i]) # concourse_target_key(descs[j])
        /\ deploy_calls[i] = 1
        /\ descs[i].pipeline_name # enumerated[i].pipeline_name
        /\ BucketsOf(i) # BucketsOf(j)

(***************************************************************************)
(* Properties of add_triage.                                               *)
(***************************************************************************)
\* the scope add_triage is to use: the scope argument if one is given
GivenOrOwnScope == IF tg_scope # <<>> THEN tg_scope[1] ELSE tg_triage.scope

\* product_id and group_id are given exactly as the scope requires
TargetMatches(scope) ==
    /\ (tg_product_id # <<>>) <=> (scope \in {FILE_NAME, FILE_HASH, RESULT})
    /\ (tg_group_id # <<>>) <=> (scope = GROUP)

\* C26: a scope argument overrides the scope of the triage: the checks of
\* product_id and group_id use it and the request carries it. product_id
\* is required iff this scope is FILE_NAME, FILE_HASH or RESULT, group_id
\* iff it is GROUP; a violation raises and no request is sent.
C26_GivenScopeOverrides ==
    tg_outcome # <<>> =>
        LET outcome == tg_outcome[1]
        IN  /\ outcome.raised <=> ~TargetMatches(GivenOrOwnScope)
            /\ outcome.raised => outcome.requests = <<>>
            /\ ~outcome.raised =>
                /\ Len(outcome.requests) = 1
                /\ outcome.requests[1].scope = GivenOrOwnScope

(***************************************************************************)
(* Properties of the choice of the branches to scan.                       *)
(***************************************************************************)
\* branch.cfg of repository r was read, or found absent, and none of its
\* entries matches any branch of the repository
NoEntryMatches(r) ==
    /\ en_repos[r].branch_cfg.state # "error"
    /\ \A k \in 1..Len(en_repos[r].branch_list) :
        MatchingEntries(en_repos[r].branch_cfg.cfgs, en_repos[r].branch_list[k]) = <<>>

\* the fallback: the default branch, with no configuration entry
DefaultBranchOnly(r) == << <<en_repos[r].default_branch, <<>> >> >>

\* C29: when no entry of the branch configuration matches, the scan of the
\* repository is that of its default branch alone, with no override layer:
\* once it has ended it has yielded what the scan of the default branch
\* yields.
C29_FallbackToDefaultBranch ==
    \A r \in Repos :
        (ScanEnded(r) /\ NoEntryMatches(r)) =>
            en_scans[r] = ScanOfPairs(en_repos[r], DefaultBranchOnly(r))

(***************************************************************************)
(* Properties of the hand-over to the result processor.                    *)
(***************************************************************************)
\* every task of the run has returned its DeployResult
BatchComplete ==
    /\ enum_done
    /\ Len(task) = Len(enumerated)
    /\ \A i \in Indices : task[i] = "done" /\ deploy_results[i] # NoDeployResult

\* the operations by which the reconciliation changes a target
ReconciliationOps == {"delete_pipeline", "unpause_pipeline", "order_pipelines"}

\* C30: process_results is called, and every call of its reconciliation
\* (delete_pipeline, unpause of a new pipeline, order_pipelines) is made,
\* only when every task of the run has returned its DeployResult: none is
\* pending or running then.
C30_ProcessesFullBatch ==
    /\ Collected => BatchComplete
    /\ rp_log # <<>> => BatchComplete
    /\ (\E i \in Indices : task[i] = "submitted") =>
        /\ rp_pc = "replicate"
        /\ \A k \in LogIndices : rp_log[k].op \notin ReconciliationOps

\* the reconciliation of a run of two tasks has deleted a pipeline,
\* unpaused a new one and ordered the pipelines
C30_Witness ==
    /\ Len(task) = 2
    /\ BatchComplete
    /\ \A op \in ReconciliationOps : \E k \in LogIndices : rp_log[k].op = op /\ rp_log[k].ok

(***************************************************************************)
(* Properties of the pool of workers.                                      *)
(***************************************************************************)
StuckTasks == {t \in PoolTasks : pl_task[t] = "stuck"}

\* every submitted task has returned or hangs itself
AllTasksFinished == \A t \in PoolTasks : pl_task[t] \in {"done", "stuck"}

\* C31: a task that hangs stalls only its own worker: unless max_workers
\* tasks hang, the remaining workers eventually run every other submitted
\* task to its end, and it stays that way.
C31_StuckTaskStallsOnlyItsWorker ==
    <>[](Cardinality(StuckTasks) >= max_workers \/ AllTasksFinished)

\* all workers but one hang and a task submitted after the hanging ones
\* has returned
C31_Witness ==
    /\ Cardinality(StuckTasks) = max_workers - 1
    /\ \E t \in PoolTasks : pl_task[t] = "done" /\ \A u \in StuckTasks : u < t

(***************************************************************************)
(* Properties of a run that follows a stopped run.                         *)
(***************************************************************************)
\* the run has returned from process_results and every result is SUCCEEDED
CompletedAllSucceeded ==
    /\ rp_pc = "returned"
    /\ \A i \in Indices : BitAnd(deploy_results[i].deploy_status, SUCCEEDED) # 0

\* the pipeline names of the results of this run for a target
DeployedTo(target) == {descs[i].pipeline_name : i \in {j \in Indices : concourse_target(descs[j]) = target}}

\* the target's list holds exactly the names in S, in alphabetical order
HoldsSorted(target, S) ==
    /\ Range(pipelines[target]) = S
    /\ Len(pipelines[target]) = Cardinality(S)
    /\ pipelines[target] = SortNames(pipelines[target])

\* C32: after a run stopped within the sweep of a target, a following run
\* over the same definitions that completes with every deploy succeeding
\* leaves on that target exactly the pipelines it deployed, in
\* alphabetical order.
C32_FollowingRunReconciles ==
    CompletedAllSucceeded =>
        \A k \in 1..Len(rr_stopped) : HoldsSorted(rr_stopped[k].target, DeployedTo(rr_stopped[k].target))

\* a run stopped after it deleted some but not all of the pipelines to
\* remove, and the next run has completed with every deploy succeeding
C32_Witness ==
    /\ CompletedAllSucceeded
    /\ \E k \in 1..Len(rr_stopped) :
        LET left == Range(rr_stopped[k].pipelines)
            target == rr_stopped[k].target
        IN  /\ left \ DeployedTo(target) # {}
            /\ \E initial \in InitialPipelines : Range(initial[target]) \ left # {}


\* render was called for descriptor i and no template root directory holds
\* the file of its template
TemplateMissing(i) == RenderCalled(i) /\ ~TemplateFileFound(template_name(descs[i]))

\* process_results was not entered: no sweep, no evaluation, no mail
ProcessResultsNotEntered ==
    /\ rp_pc \in {"replicate", "aborted"}
    /\ results = <<>>
    /\ rp_log = <<>>
    /\ mails = <<>>
    /\ rp_return = <<>>

Rendered(i) == RenderCalled(i) /\ render_results[i].render_status = RenderSUCCEEDED

\* the final name the renderer determined for descriptor i
FinalNameOf(i) == FinalPipelineName(process_definition_descriptor(enumerated[i]))

\* C34: after a successful render the descriptor carries the final name the
\* renderer determined (the definition's name followed by the branch of the
\* first variant with a main repository, or the bare name), and a pipeline
\* that was set on the target was set under that name.
C34_FinalNameAttached ==
    \A i \in Indices :
        Rendered(i) =>
            /\ descs[i].pipeline_name = FinalNameOf(i)
            /\ set_responses[i] # None => FinalNameOf(i) \in Range(pipelines[concourse_target(descs[i])])


\* C35: in the organisation enumerator the tasks of the pool read nothing:
\* every read and every Descriptor of a repository is made while the
\* consumer runs the scan of that repository, one repository at a time in
\* the order of the listing. A repository the consumer has not reached has
\* yielded nothing although its task may have run, a repository it has
\* left has yielded everything, and the stream is the scans one after the
\* other.
C35_ScansRunInConsumerInListingOrder ==
    en_kind = "organisation" =>
        /\ \A r \in Repos : r > en_repo => (en_scans[r] = <<>> /\ StreamOf(r) = <<>>)
        /\ \A r \in Repos : r < en_repo => en_scans[r] = ScanOfPairs(en_repos[r], PairsOf(r))
        /\ en_stream = Flatten(en_scans)

\* the task of the second repository has run while the consumer is still
\* within the scan of the first, which has yielded Descriptors
C35_Witness ==
    /\ en_kind = "organisation"
    /\ Len(en_repos) >= 2
    /\ en_task[2] = "done"
    /\ en_pc = "scan"
    /\ en_repo = 1
    /\ en_branch >= 2
    /\ en_scans[1] # <<>>


\* the pipeline named by result i was on its target when the sweep listed it
NamedAndKnown(i) == descs[i].pipeline_name \in KnownAtSweep(concourse_target(descs[i]))

\* C36: process_results never deletes a pipeline that a result of the run
\* names for the target, whatever the status of the result; such a
\* pipeline, if the target had it when the sweep listed the pipelines, is
\* still on the target.
C36_NamedPipelinesAreKept ==
    \A i \in Range(results) :
        LET target == concourse_target(descs[i])
        IN  /\ \A k \in Made(target, "delete_pipeline") : rp_log[k].arg[1] # descs[i].pipeline_name
            /\ NamedAndKnown(i) => descs[i].pipeline_name \in Range(pipelines[target])

\* process_results has returned; a result skipped for a render failure and
\* a result of a failed deploy each name a pipeline their target had, and
\* another pipeline was deleted
C36_Witness ==
    /\ rp_pc = "returned"
    /\ \E i \in Range(results) :
        /\ render_results[i].render_status = RenderFAILED
        /\ deploy_results[i].deploy_status = SKIPPED
        /\ NamedAndKnown(i)
    /\ \E j \in Range(results) :
        /\ HasBit(deploy_results[j].deploy_status, FAILED)
        /\ NamedAndKnown(j)
        /\ DeletedFrom(concourse_target(descs[j])) # {}


\* the results of the run whose Descriptor carries a discovery error
DiscoveryFailed == {i \in Range(results) : descs[i].exception # None}

\* the names the results of the target other than i carry
NamedByOthers(i) == {descs[j].pipeline_name : j \in ResultsOf(concourse_target(descs[i])) \ {i}}

\* C37: the result of a branch whose definitions file is unparsable
\* carries the Descriptor as it was yielded, named `<invalid YAML>`, never
\* preprocessed; it shields no pipeline of its target: once the deletions
\* of the target are finished, every pipeline the target listed that no
\* other result of the bucket names, the pipelines deployed earlier from
\* that branch among them, is deleted.
C37_UnparsableBranchShieldsNoPipeline ==
    \A i \in DiscoveryFailed :
        LET target == concourse_target(descs[i])
        IN  /\ descs[i] = enumerated[i]
            /\ descs[i].pipeline_name = "<invalid YAML>"
            /\ Len(descs[i].override_definitions) = 0
            /\ DeletionsFinished(target) =>
                /\ KnownAtSweep(target) \ NamedByOthers(i) \subseteq DeletedFrom(target)
                /\ Range(pipelines[target]) \cap (KnownAtSweep(target) \ NamedByOthers(i)) = {}

\* the only result of the target is that of an unparsable file of branch m,
\* and the pipeline q-m, deployed earlier from that branch, was deleted
C37_Witness ==
    /\ rp_pc = "returned"
    /\ \E i \in DiscoveryFailed :
        /\ ResultsOf(concourse_target(descs[i])) = {i}
        /\ descs[i].main_repo.branch = "m"
        /\ "q-m" \in DeletedFrom(concourse_target(descs[i]))


\* the calls process_results made to the CI server of a target
CallsTo(target) == {k \in LogIndices : rp_log[k].target = target}

\* the target holds the pipelines it held before the run
Untouched(target) == \E initial \in InitialPipelines : pipelines[target] = initial[target]

\* C38: once the results are handed to process_results, a target that no
\* result is routed to gets no call of process_results and keeps all its
\* pipelines; handed an empty list, process_results calls no CI server,
\* sends no notification and returns true.
C38_TargetWithoutResultIsLeftAlone ==
    Collected =>
        /\ \A target \in Targets :
            ResultsOf(target) = {} => (CallsTo(target) = {} /\ Untouched(target))
        /\ results = <<>> =>
            /\ rp_log = <<>>
            /\ mails = <<>>
            /\ rp_pc \in {"evaluate", "returned"}
            /\ rp_pc = "returned" => rp_return = <<TRUE>>

\* process_results has returned after it swept one target and deleted
\* pipelines there; the other target, to which no result is routed, still
\* holds its pipelines
C38_Witness ==
    /\ rp_pc = "returned"
    /\ \E swept \in Targets, other \in Targets :
        /\ DeletedFrom(swept) # {}
        /\ ResultsOf(other) = {}
        /\ pipelines[other] # <<>>

(***************************************************************************)
(* Properties of the names under which the Descriptors of a run are        *)
(* deployed.                                                               *)
(***************************************************************************)
\* the Descriptors of the stream that the preprocessor will be applied to
Preprocessable == {k \in 1..Len(en_stream) : en_stream[k].exception = None}

\* the name under which the k-th Descriptor of the stream is deployed
DeployedName(k) == process_definition_descriptor(en_stream[k]).pipeline_name

\* the k-th and the l-th Descriptor are routed to the same target bucket
SameBucket(k, l) == concourse_target_key(en_stream[k]) = concourse_target_key(en_stream[l])

\* (repository, definition name, branch) of the k-th Descriptor
Triple(k) == <<en_stream[k].main_repo.path, en_stream[k].pipeline_name, en_stream[k].main_repo.branch>>

\* C39: no two Descriptors of a run that are routed to the same target
\* bucket and differ in repository, definition name or branch have the same
\* pipeline_name after preprocessing.
C39_NamesAreUniquePerBucket ==
    \A k \in Preprocessable, l \in Preprocessable :
        (k # l /\ SameBucket(k, l) /\ Triple(k) # Triple(l)) => DeployedName(k) # DeployedName(l)

\* C39 as amended: two Descriptors of the same repository and branch have
\* different names after preprocessing, and so have two Descriptors of the
\* same branch name with different definition names.
C39_NamesAreUniquePerRepositoryBranch ==
    \A k \in Preprocessable, l \in Preprocessable :
        k # l =>
            /\ en_stream[k].main_repo = en_stream[l].main_repo => DeployedName(k) # DeployedName(l)
            /\ (en_stream[k].main_repo.branch = en_stream[l].main_repo.branch /\ en_stream[k].pipeline_name # en_stream[l].pipeline_name)
                => DeployedName(k) # DeployedName(l)

\* an organisation was scanned to its end: two Descriptors of one branch
\* of one repository are in the stream, and two Descriptors of different
\* repositories that are deployed to the same target under the same name
C39_Witness ==
    /\ en_kind = "organisation"
    /\ en_pc = "done"
    /\ \E k \in Preprocessable, l \in Preprocessable :
        k # l /\ en_stream[k].main_repo = en_stream[l].main_repo
    /\ \E k \in Preprocessable, l \in Preprocessable :
        /\ en_stream[k].main_repo.path # en_stream[l].main_repo.path
        /\ SameBucket(k, l)
        /\ DeployedName(k) = DeployedName(l)


\* the branch-config entry's `inherit` mapping for the k-th pair of
\* repository r ({} without an entry)
InheritOf(r, k) ==
    IF PairsOf(r)[k][2] # <<>> THEN override_definitions(PairsOf(r)[k][2][1]) ELSE EmptyMap

\* the scan of repository r got to the branch of its k-th pair, whose file
\* parses, and went on after it
ScannedParsable(r, k) ==
    /\ FileOf(r, k).state = "ok"
    /\ \A j \in 1..k : ScanBranchPair(en_repos[r], PairsOf(r)[j]).next = "continue"
    /\ ScanOver(r) \/ (en_repo = r /\ en_branch > k)

\* C40: for a scanned branch whose definitions file parses, the names of
\* the yielded Descriptors are the keys of the file together with the keys
\* of the entry's `inherit` mapping, one Descriptor each; a name only
\* `inherit` has yields a Descriptor whose definition is the `inherit`
\* value, and the only override layer a Descriptor is yielded with is the
\* `inherit` value for its name, or {}.
C40_NamesAreFileKeysAndInheritKeys ==
    \A r \in Repos :
        \A k \in 1..Len(PairsOf(r)) :
            ScannedParsable(r, k) =>
                LET yielded == BranchDescriptors(r, k)
                    inherit == InheritOf(r, k)
                    file == FileOf(r, k)
                IN  /\ {yielded[n].pipeline_name : n \in 1..Len(yielded)} = Range(file.names) \cup DOMAIN inherit
                    /\ Len(yielded) = Cardinality(Range(file.names) \cup DOMAIN inherit)
                    /\ \A n \in 1..Len(yielded) :
                        LET name == yielded[n].pipeline_name
                        IN  /\ yielded[n].exception = None
                            /\ Len(yielded[n].override_definitions) = 1
                            /\ yielded[n].override_definitions[1] = (IF name \in DOMAIN inherit THEN inherit[name].v ELSE EmptyMap)
                            /\ name \notin Range(file.names) => yielded[n].pipeline_definition = inherit[name].v

\* a branch was scanned whose file declares q and p and whose entry
\* inherits p and n: the Descriptor n was yielded, and q has the layer {}
C40_Witness ==
    \E r \in Repos :
        \E k \in 1..Len(PairsOf(r)) :
            /\ ScannedParsable(r, k)
            /\ "n" \in DOMAIN InheritOf(r, k) \ Range(FileOf(r, k).names)
            /\ \E a \in 1..Len(BranchDescriptors(r, k)), b \in 1..Len(BranchDescriptors(r, k)) :
                /\ BranchDescriptors(r, k)[a].pipeline_name = "n"
                /\ BranchDescriptors(r, k)[b].pipeline_name = "q"
                /\ BranchDescriptors(r, k)[b].override_definitions = <<EmptyMap>>

====
